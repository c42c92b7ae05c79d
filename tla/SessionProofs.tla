--------------------------- MODULE SessionProofs ---------------------------
(***************************************************************************)
(* Proofs about Session, for any clients, any backlog, any frame size and  *)
(* any commands, over a network that hands out whole writes.               *)
(*                                                                         *)
(* At every moment the last answer made for a client is cut into three     *)
(* parts: the frames it has printed, the frames in the stream, and the     *)
(* frames send_file still holds.  Frames before the last are as long as    *)
(* the receive buffer, so that a recv takes exactly one of them.           *)
(*                                                                         *)
(* The second half shows that a session is a Dialogue.                     *)
(***************************************************************************)
EXTENDS Session, SequenceTheorems, FiniteSetTheorems, TLAPS

\* d holds the frames after number j up to number m, one behind the other.
InTransit(d, frames, j, m) ==
  /\ Len(d) = IF m = j THEN 0 ELSE (m - j - 1) * MaxData + Len(frames[m])
  /\ \A f \in j + 1 .. m : \A q \in 1 .. Len(frames[f]) :
       d[(f - j - 1) * MaxData + q] = frames[f][q]

ShownUpTo(text, j) == SubSeq(text, 1, Least(j * Payload, Len(text)))

\* The client waits and no part of an answer is on its way to it.
Waiting(c) ==
  /\ client[c] = "recv"
  /\ screen[c] = <<>>
  /\ down[c] = <<>>
  /\ cur = c => out = <<>>

\* The client has printed some frames of its answer, and the others follow.
Reading(c) ==
  LET frames == Frames(reply[c]) IN
  /\ client[c] = "recv"
  /\ \E j \in 0 .. FrameCount(reply[c]) - 1, m \in 0 .. FrameCount(reply[c]) :
       /\ j <= m
       /\ screen[c] = ShownUpTo(reply[c], j)
       /\ InTransit(down[c], frames, j, m)
       /\ cur = c => out = SubSeq(frames, m + 1, Len(frames))

\* It has printed them all.
Done(c) ==
  /\ client[c] = "type"
  /\ screen[c] = reply[c]
  /\ down[c] = <<>> /\ up[c] = <<>>
  /\ cur = c => out = <<>>

Talking == {"order", "confirm", "clear", "install", "bye"}

ServerInv ==
  /\ cur \in Clients <=> server \in Talking
  /\ server \in {"accept", "down", "clear", "install"} => out = <<>>
  /\ server = "down" => queue = <<>> /\ open = {}
  /\ cur \in Clients => client[cur] # "off"

QueueInv == \A i, k \in DOMAIN queue : i # k => queue[i] # queue[k]

Queued(c) == \E i \in DOMAIN queue : queue[i] = c

ClientInv(c) ==
  /\ client[c] = "off" => screen[c] = <<>> /\ down[c] = <<>> /\ up[c] = <<>>
  /\ client[c] = "type" => Done(c) /\ ~Resetting(c)
  /\ client[c] = "recv" =>
       /\ Waiting(c) \/ Reading(c)
       /\ up[c] # <<>> => Waiting(c)
       /\ Resetting(c) => Waiting(c) /\ up[c] = <<>>
  /\ Queued(c) => /\ cur # c
                  /\ client[c] \in {"recv", "gone"}
                  /\ up[c] = <<>>
                  /\ client[c] = "recv" => Waiting(c)

Typed ==
  /\ TypeOK
  /\ out \in Seq(Seq(Units) \ {<<>>})
  /\ recebuf \in [1 .. MaxData -> Vocabulary]
  /\ rbuf \in [Clients -> [1 .. MaxData -> Units]]
  /\ \A c \in Clients : up[c] = <<>> \/ \E order \in Orders : up[c] = Message(order)

IInv == Typed /\ ServerInv /\ QueueInv /\ \A c \in Clients : ClientInv(c)

-----------------------------------------------------------------------------
(***************************************************************************)
(* Frames.                                                                 *)
(***************************************************************************)
LEMMA Multiples ==
  ASSUME NEW a \in Int, NEW b \in Int, NEW n \in Nat
  PROVE  /\ a * n \in Int
         /\ (a + 1) * n = a * n + n
         /\ (a - 1) * n = a * n - n
         /\ a <= b => a * n <= b * n
         /\ 0 * n = 0
<1>1. /\ a * n \in Int /\ 0 * n = 0
      /\ (a + 1) * n = a * n + n /\ (a - 1) * n = a * n - n
  OBVIOUS
<1>2. ASSUME a <= b PROVE a * n <= b * n
  <2>1. b - a \in Nat /\ (b - a) * n = b * n - a * n
    BY <1>2
  <2>2. (b - a) * n >= 0
    BY <2>1
  <2> QED
    BY <2>1, <2>2
<1> QED
  BY <1>1, <1>2

LEMMA RoundUp ==
  ASSUME NEW n \in Nat, NEW d \in Nat, d > 0,
         NEW q, q = (n + d - 1) \div d
  PROVE  /\ q \in Nat
         /\ q = 0 <=> n = 0
         /\ (q - 1) * d < n \/ q = 0
         /\ n <= q * d
<1> DEFINE x == n + d - 1
<1>1. q \in Int /\ q * d <= x /\ x < (q + 1) * d
  OBVIOUS
<1>2. (q + 1) * d = q * d + d /\ (q - 1) * d = q * d - d /\ q * d \in Int
  BY <1>1, Multiples
<1>3. n <= q * d /\ (q - 1) * d < n
  BY <1>1, <1>2
<1>4. q \in Nat
  <2>1. CASE q <= -1
    <3>1. q * d <= (-1) * d
      BY <1>1, <2>1, Multiples
    <3> QED
      BY <1>3, <3>1
  <2> QED
    BY <1>1, <2>1
<1>5. q = 0 <=> n = 0
  <2>1. q = 0 => n = 0
    BY <1>3, Multiples
  <2>2. ASSUME n = 0, q >= 1 PROVE FALSE
    <3>1. 1 * d <= q * d
      BY <1>1, <2>2, Multiples
    <3> QED
      BY <1>1, <1>2, <2>2, <3>1
  <2> QED
    BY <1>4, <2>1, <2>2
<1> QED
  BY <1>3, <1>4, <1>5

\* How long the parts of an answer are: full but for the last.
LEMMA FrameCounts ==
  ASSUME NEW text \in Seq(Vocabulary)
  PROVE  /\ FrameCount(text) \in Nat
         /\ FrameCount(text) = 0 <=> text = <<>>
         /\ Len(text) <= FrameCount(text) * Payload
         /\ \A k \in 1 .. FrameCount(text) :
              /\ k * Payload < Len(text) <=> k < FrameCount(text)
              /\ (k - 1) * Payload < Len(text) /\ (k - 1) * Payload \in Nat
<1> DEFINE N == FrameCount(text)  L == Len(text)  P == Payload
<1>1. L \in Nat /\ (L = 0 <=> text = <<>>) /\ P \in Nat /\ P > 0
  BY SessionAssumption, EmptySeq, LenProperties DEF Payload
<1>2. N = (L + P - 1) \div P
  BY DEF FrameCount
<1> HIDE DEF N, L, P
<1>3. /\ N \in Nat /\ (N = 0 <=> L = 0) /\ L <= N * P
      /\ (N - 1) * P < L \/ N = 0
  <2>1. \A q : q = (L + P - 1) \div P =>
          /\ q \in Nat /\ (q = 0 <=> L = 0) /\ L <= q * P
          /\ (q - 1) * P < L \/ q = 0
    BY <1>1, RoundUp
  <2> QED
    BY <1>2, <2>1
<1>4. ASSUME NEW k \in 1 .. N
      PROVE  (k * P < L <=> k < N) /\ (k - 1) * P < L /\ (k - 1) * P \in Nat
  <2>1. k \in Int /\ N - 1 \in Int /\ k - 1 \in Nat
    BY <1>3
  <2>2. /\ k <= N - 1 => k * P <= (N - 1) * P
        /\ N <= k => N * P <= k * P
        /\ k - 1 <= N - 1 => (k - 1) * P <= (N - 1) * P
    BY <1>1, <1>3, <2>1, Multiples
  <2>3. /\ k * P \in Int /\ N * P \in Int /\ (N - 1) * P \in Int /\ (k - 1) * P \in Int
        /\ 0 * P <= (k - 1) * P /\ 0 * P = 0
    BY <1>1, <1>3, <2>1, Multiples
  <2> QED
    BY <1>1, <1>3, <2>1, <2>2, <2>3
<1> QED
  BY <1>1, <1>3, <1>4 DEF N, L, P

LEMMA Slice ==
  ASSUME NEW S, NEW s \in Seq(S), NEW a \in Nat, NEW n \in Nat, a + n <= Len(s)
  PROVE  /\ SubSeq(s, a + 1, a + n) \in Seq(S)
         /\ Len(SubSeq(s, a + 1, a + n)) = n
         /\ \A q \in 1 .. n : SubSeq(s, a + 1, a + n)[q] = s[a + q]
<1> DEFINE lo == a + 1  hi == a + n
<1>1. lo \in Int /\ hi \in Int /\ hi - lo + 1 = n /\ (n = 0 <=> hi < lo)
  OBVIOUS
<1>2. \A q \in lo .. hi : s[q] \in S
  BY LenProperties, ElementOfSeq
<1>3. \A q \in 1 .. n : lo + q - 1 = a + q
  OBVIOUS
<1> HIDE DEF lo, hi
<1>4. /\ SubSeq(s, lo, hi) \in Seq(S)
      /\ Len(SubSeq(s, lo, hi)) = IF lo <= hi THEN hi - lo + 1 ELSE 0
      /\ \A q \in 1 .. hi - lo + 1 : SubSeq(s, lo, hi)[q] = s[lo + q - 1]
  BY <1>1, <1>2, SubSeqProperties
<1>5. Len(SubSeq(s, lo, hi)) = n
  BY <1>1, <1>4
<1>6. \A q \in 1 .. n : SubSeq(s, lo, hi)[q] = s[a + q]
  BY <1>1, <1>3, <1>4
<1> QED
  BY <1>4, <1>5, <1>6 DEF lo, hi

\* What is in a frame that starts behind i words of the answer.
LEMMA FrameOf ==
  ASSUME NEW text \in Seq(Vocabulary), NEW i \in Nat, i < Len(text),
         NEW more \in BOOLEAN
  PROVE  LET n == Least(Payload, Len(text) - i)
             f == Frame(text, i, more)
         IN  /\ n \in 1 .. Payload
             /\ f \in Seq(Units)
             /\ Len(f) = n + 1
             /\ f[1] = Header(IF more THEN n + MaxData ELSE n)
             /\ \A q \in 1 .. n : f[q + 1].word = text[i + q]
<1> DEFINE n == Least(Payload, Len(text) - i)
           part == SubSeq(text, i + 1, Least(i + Payload, Len(text)))
           body == [q \in 1 .. n |-> Word(part[q])]
           head == Header(IF more THEN n + MaxData ELSE n)
<1>1. /\ Payload \in Nat /\ Payload >= 2 /\ Payload = MaxData - 1
      /\ MaxData \in Nat /\ Len(text) \in Nat
  BY SessionAssumption, LenProperties DEF Payload
<1>2. n \in 1 .. Payload /\ Least(i + Payload, Len(text)) = i + n /\ i + n <= Len(text)
  BY <1>1 DEF Least
<1> HIDE DEF n
<1>3. /\ part \in Seq(Vocabulary) /\ Len(part) = n
      /\ \A q \in 1 .. n : part[q] = text[i + q] /\ part[q] \in Vocabulary
  <2>1. \A q \in i + 1 .. i + n : text[q] \in Vocabulary
    BY <1>1, <1>2, ElementOfSeq
  <2>2. /\ SubSeq(text, i + 1, i + n) \in Seq(Vocabulary)
        /\ Len(SubSeq(text, i + 1, i + n)) = n
        /\ \A q \in 1 .. n : SubSeq(text, i + 1, i + n)[q] = text[i + q]
    BY <1>2, Slice
  <2> QED
    BY <1>1, <1>2, <2>1, <2>2
<1> HIDE DEF part
<1>4. body \in Seq(Units) /\ Len(body) = n
  <2>1. \A q \in 1 .. n : Word(part[q]) \in Units
    BY <1>1, <1>3 DEF Word, Units
  <2> QED
    BY <1>2, <2>1
<1>5. head \in Units
  <2>1. \A len \in -1 .. 2 * MaxData - 1 : Header(len) \in Units
    BY DEF Header, Units, Vocabulary, Zeros
  <2>2. CASE more
    BY <1>1, <1>2, <2>1, <2>2
  <2>3. CASE ~more
    BY <1>1, <1>2, <2>1, <2>3
  <2> QED
    BY <2>2, <2>3
<1>6. Frame(text, i, more) = <<head>> \o body
  BY <1>3 DEF Frame, part
<1> HIDE DEF body, head
<1>7. <<head>> \in Seq(Units) /\ Len(<<head>>) = 1 /\ <<head>>[1] = head
  BY <1>5
<1>8. /\ <<head>> \o body \in Seq(Units)
      /\ Len(<<head>> \o body) = 1 + n
      /\ \A q \in 1 .. 1 + n :
           (<<head>> \o body)[q] = IF q <= 1 THEN <<head>>[q] ELSE body[q - 1]
  BY <1>4, <1>7, ConcatProperties
<1>9. \A q \in 1 .. n : (<<head>> \o body)[q + 1].word = text[i + q]
  <2>1. ASSUME NEW q \in 1 .. n PROVE (<<head>> \o body)[q + 1].word = text[i + q]
    <3>1. (<<head>> \o body)[q + 1] = body[q]
      BY <1>2, <1>8
    <3>2. body[q].word = part[q]
      BY DEF body, Word
    <3> QED
      BY <1>3, <3>1, <3>2
  <2> QED
    BY <2>1
<1> QED
  BY <1>2, <1>6, <1>7, <1>8, <1>9 DEF n, head

\* The frames of an answer: all but the last fill a buffer and say so.
LEMMA FramesOf ==
  ASSUME NEW text \in Seq(Vocabulary)
  PROVE  LET N == FrameCount(text)
             frames == Frames(text)
         IN  /\ frames \in Seq(Seq(Units) \ {<<>>})
             /\ Len(frames) = N
             /\ \A k \in 1 .. N :
                  LET i == (k - 1) * Payload
                      n == Least(Payload, Len(text) - i)
                  IN  /\ n \in 1 .. Payload
                      /\ frames[k] \in Seq(Units)
                      /\ Len(frames[k]) = n + 1
                      /\ frames[k][1].len = IF k < N THEN n + MaxData ELSE n
                      /\ \A q \in 1 .. n : frames[k][q + 1].word = text[i + q]
                      /\ k < N => n = Payload
<1> DEFINE N == FrameCount(text)  frames == Frames(text)
<1>1. N \in Nat /\ Len(text) \in Nat /\ Payload \in Nat /\ Payload > 0
  BY FrameCounts, SessionAssumption, LenProperties DEF Payload
<1>2. ASSUME NEW k \in 1 .. N
      PROVE  LET i == (k - 1) * Payload
                 n == Least(Payload, Len(text) - i)
             IN  /\ n \in 1 .. Payload
                 /\ frames[k] \in Seq(Units)
                 /\ Len(frames[k]) = n + 1
                 /\ frames[k][1].len = IF k < N THEN n + MaxData ELSE n
                 /\ \A q \in 1 .. n : frames[k][q + 1].word = text[i + q]
                 /\ k < N => n = Payload
  <2> DEFINE i == (k - 1) * Payload
             n == Least(Payload, Len(text) - i)
             more == k * Payload < Len(text)
  <2>1. /\ i \in Nat /\ i < Len(text) /\ (more <=> k < N)
    BY FrameCounts
  <2>2. frames[k] = Frame(text, i, more)
    BY DEF Frames
  <2>3. k * Payload = i + Payload
    BY <1>1, Multiples
  <2>4. more => n = Payload
    BY <1>1, <2>1, <2>3 DEF Least
  <2>5. /\ n \in 1 .. Payload
        /\ Frame(text, i, more) \in Seq(Units)
        /\ Len(Frame(text, i, more)) = n + 1
        /\ Frame(text, i, more)[1] = Header(IF more THEN n + MaxData ELSE n)
        /\ \A q \in 1 .. n : Frame(text, i, more)[q + 1].word = text[i + q]
    <3>1. more \in BOOLEAN
      OBVIOUS
    <3> HIDE DEF i, more
    <3> QED
      BY <2>1, <3>1, FrameOf DEF n
  <2> HIDE DEF i, n, more, frames, N
  <2>6. frames[k][1].len = IF k < N THEN n + MaxData ELSE n
    <3>1. \A len : Header(len).len = len
      BY DEF Header
    <3>2. frames[k][1] = IF more THEN Header(n + MaxData) ELSE Header(n)
      BY <2>2, <2>5, Zenon
    <3>3. CASE more
      BY <2>1, <3>1, <3>2, <3>3
    <3>4. CASE ~more
      BY <2>1, <3>1, <3>2, <3>4
    <3> QED
      BY <3>3, <3>4
  <2> QED
    BY <2>1, <2>2, <2>4, <2>5, <2>6 DEF i, n
<1>3. frames \in Seq(Seq(Units) \ {<<>>}) /\ Len(frames) = N
  <2>1. \A k \in 1 .. N : frames[k] \in Seq(Units) \ {<<>>}
    <3>1. ASSUME NEW k \in 1 .. N PROVE frames[k] \in Seq(Units) \ {<<>>}
      <4>1. /\ Least(Payload, Len(text) - (k - 1) * Payload) \in 1 .. Payload
            /\ frames[k] \in Seq(Units)
            /\ Len(frames[k]) = Least(Payload, Len(text) - (k - 1) * Payload) + 1
        BY <1>2
      <4> QED
        BY <1>1, <4>1, EmptySeq
    <3> QED
      BY <3>1
  <2>2. frames = [k \in 1 .. N |-> frames[k]]
    BY DEF Frames
  <2> HIDE DEF frames, N
  <2> QED
    BY <1>1, <2>1, <2>2
<1> QED
  BY <1>2, <1>3

-----------------------------------------------------------------------------
(***************************************************************************)
(* Streams.                                                                *)
(***************************************************************************)
\* Frames as send_file makes them.
Framed(frames) ==
  /\ frames \in Seq(Seq(Units) \ {<<>>})
  /\ \A k \in 1 .. Len(frames) :
       /\ Len(frames[k]) <= MaxData
       /\ k < Len(frames) => Len(frames[k]) = MaxData

LEMMA FramesAreFramed ==
  ASSUME NEW text \in Seq(Vocabulary)
  PROVE  Framed(Frames(text))
<1>1. MaxData \in Nat /\ Payload = MaxData - 1
  BY SessionAssumption DEF Payload
<1>2. /\ Frames(text) \in Seq(Seq(Units) \ {<<>>})
      /\ Len(Frames(text)) = FrameCount(text)
  BY FramesOf
<1>3. ASSUME NEW k \in 1 .. FrameCount(text)
      PROVE  /\ Len(Frames(text)[k]) <= MaxData
             /\ k < FrameCount(text) => Len(Frames(text)[k]) = MaxData
  <2> DEFINE n == Least(Payload, Len(text) - (k - 1) * Payload)
  <2>1. /\ n \in 1 .. Payload /\ Len(Frames(text)[k]) = n + 1
        /\ k < FrameCount(text) => n = Payload
    BY FramesOf
  <2> HIDE DEF n
  <2> QED
    BY <1>1, <2>1
<1> QED
  BY <1>2, <1>3 DEF Framed

LEMMA StreamSize ==
  ASSUME NEW frames, Framed(frames), NEW d \in Seq(Units),
         NEW j \in Nat, NEW m \in Nat, j <= m, m <= Len(frames),
         InTransit(d, frames, j, m)
  PROVE  /\ m < Len(frames) => Len(d) = (m - j) * MaxData
         /\ d = <<>> <=> j = m
         /\ \A k \in 1 .. Len(frames) :
              /\ frames[k] \in Seq(Units) /\ Len(frames[k]) \in 1 .. MaxData
              /\ k < Len(frames) => Len(frames[k]) = MaxData
         /\ (m - j) * MaxData \in Nat /\ (m - j - 1) * MaxData \in Int
         /\ (m - j) * MaxData = (m - j - 1) * MaxData + MaxData
<1>1. MaxData \in Nat /\ MaxData >= 3 /\ Len(frames) \in Nat /\ Len(d) \in Nat
  BY SessionAssumption, LenProperties DEF Framed
<1>2. ASSUME NEW k \in 1 .. Len(frames)
      PROVE  /\ frames[k] \in Seq(Units) /\ Len(frames[k]) \in 1 .. MaxData
             /\ k < Len(frames) => Len(frames[k]) = MaxData
  <2>1. frames[k] \in Seq(Units) \ {<<>>} /\ Len(frames[k]) <= MaxData
    BY <1>1, ElementOfSeq DEF Framed
  <2>2. Len(frames[k]) \in Nat \ {0}
    BY <2>1, EmptySeq
  <2> QED
    BY <1>1, <2>1, <2>2 DEF Framed
<1> DEFINE r == m - j
<1>3. r \in Nat /\ (r = 0 <=> m = j) /\ (r - 1) \in Int
  OBVIOUS
<1> HIDE DEF r
<1> DEFINE all == r * MaxData  most == (r - 1) * MaxData
<1>4. /\ all \in Nat /\ most \in Int /\ most = all - MaxData
      /\ r = 0 => all = 0
      /\ r # 0 => most \in Nat
  <2>1. /\ 0 <= r /\ 0 * MaxData = 0
        /\ r # 0 => 0 <= r - 1
    BY <1>3, Multiples, <1>1
  <2> QED
    BY <1>1, <1>3, <2>1, Multiples
<1>5. /\ r = 0 => Len(d) = 0
      /\ r # 0 => Len(d) = most + Len(frames[m]) /\ m \in 1 .. Len(frames)
  <2>1. Len(d) = IF m = j THEN 0 ELSE (r - 1) * MaxData + Len(frames[m])
    BY DEF InTransit, r
  <2>2. m \in Int /\ j \in Int /\ (m # j => m \in 1 .. Len(frames))
    BY <1>1
  <2> HIDE DEF most
  <2> QED
    BY <1>3, <2>1, <2>2 DEF most
<1> HIDE DEF all, most
<1>6. d = <<>> <=> Len(d) = 0
  BY EmptySeq
<1>7. m < Len(frames) => Len(d) = all
  BY <1>1, <1>2, <1>3, <1>4, <1>5
<1>8. d = <<>> <=> r = 0
  <2>1. CASE r = 0
    BY <1>5, <1>6, <2>1
  <2>2. CASE r # 0
    <3>1. Len(frames[m]) > 0
      BY <1>1, <1>2, <1>5, <2>2
    <3> QED
      BY <1>1, <1>4, <1>5, <1>6, <2>2, <3>1
  <2> QED
    BY <2>1, <2>2
<1> QED
  BY <1>1, <1>2, <1>3, <1>4, <1>7, <1>8 DEF r, all, most

\* A write puts the next frame behind the others.
LEMMA PushFrame ==
  ASSUME NEW frames, Framed(frames), NEW d \in Seq(Units),
         NEW j \in Nat, NEW m \in Nat, j <= m, m < Len(frames),
         InTransit(d, frames, j, m)
  PROVE  InTransit(d \o frames[m + 1], frames, j, m + 1)
<1> DEFINE e == frames[m + 1]  M == MaxData  r == m - j
<1>1. M \in Nat /\ M >= 3 /\ Len(frames) \in Nat
  BY SessionAssumption, LenProperties DEF Framed
<1>2. /\ e \in Seq(Units) /\ Len(e) \in 1 .. M
      /\ Len(d) = r * M /\ r \in Nat /\ r * M \in Nat
      /\ \A k \in 1 .. Len(frames) : Len(frames[k]) \in 1 .. M
  BY <1>1, StreamSize
<1>3. /\ Len(d \o e) = Len(d) + Len(e)
      /\ \A i \in 1 .. Len(d) + Len(e) :
           (d \o e)[i] = IF i <= Len(d) THEN d[i] ELSE e[i - Len(d)]
  BY <1>2, ConcatProperties
<1>4. ASSUME NEW f \in j + 1 .. m + 1, NEW q \in 1 .. Len(frames[f])
      PROVE  (d \o e)[(f - j - 1) * M + q] = frames[f][q]
  <2> DEFINE t == f - j - 1
  <2>1. t \in Nat /\ t <= r /\ (t = r <=> f = m + 1) /\ f \in 1 .. Len(frames)
    BY <1>1
  <2>2. Len(frames[f]) \in 1 .. M
    BY <1>2, <2>1
  <2>3. CASE f = m + 1
    <3>1. t = r /\ frames[f] = e
      BY <2>1, <2>3
    <3> HIDE DEF t, e, r
    <3>2. t * M + q \in 1 .. Len(d) + Len(e) /\ t * M + q - Len(d) = q
      BY <1>2, <2>2, <3>1
    <3>3. t * M + q > Len(d)
      BY <1>2, <2>2, <3>1
    <3> QED
      BY <1>2, <1>3, <3>1, <3>2, <3>3 DEF t
  <2>4. CASE f # m + 1
    <3>1. t + 1 <= r /\ t + 1 \in Int /\ r \in Int /\ f \in j + 1 .. m
      BY <2>1, <2>4
    <3> HIDE DEF t, e, r
    <3>2. /\ (t + 1) * M <= r * M /\ (t + 1) * M = t * M + M
          /\ 0 * M <= t * M /\ 0 * M = 0 /\ t * M \in Int
      BY <1>1, <2>1, <3>1, Multiples
    <3>3. t * M + q \in 1 .. Len(d)
      BY <1>1, <1>2, <2>2, <3>2
    <3>4. (d \o e)[t * M + q] = d[t * M + q]
      BY <1>2, <1>3, <3>3
    <3>5. d[t * M + q] = frames[f][q]
      BY <3>1 DEF InTransit, t
    <3> QED
      BY <3>4, <3>5 DEF t
  <2> QED
    BY <2>3, <2>4
<1>5. m + 1 - j - 1 = r /\ m + 1 # j
  OBVIOUS
<1> HIDE DEF e, M, r
<1>6. Len(d \o e) = (m + 1 - j - 1) * M + Len(frames[m + 1])
  BY <1>2, <1>3, <1>5 DEF e
<1> DEFINE joined == d \o frames[m + 1]  k == m + 1
<1>7. Len(joined) = IF k = j THEN 0 ELSE (k - j - 1) * MaxData + Len(frames[k])
  BY <1>5, <1>6 DEF e, M
<1>8. \A f \in j + 1 .. k : \A q \in 1 .. Len(frames[f]) :
        joined[(f - j - 1) * MaxData + q] = frames[f][q]
  BY <1>4 DEF e, M
<1> HIDE DEF joined, k
<1>9. InTransit(joined, frames, j, k)
  BY <1>7, <1>8 DEF InTransit
<1> QED
  BY <1>9 DEF joined, k

\* A recv of the size of a buffer takes exactly the first frame.
LEMMA PopFrame ==
  ASSUME NEW frames, Framed(frames), NEW d \in Seq(Units),
         NEW j \in Nat, NEW m \in Nat, j < m, m <= Len(frames),
         InTransit(d, frames, j, m), NEW n, n = Least(MaxData, Len(d))
  PROVE  /\ n = Len(frames[j + 1])
         /\ SubSeq(d, 1, n) = frames[j + 1]
         /\ InTransit(Rest(d, n), frames, j + 1, m)
         /\ Rest(d, n) \in Seq(Units)
<1> DEFINE M == MaxData  r == m - j - 1  e == frames[j + 1]
<1>1. M \in Nat /\ M >= 3 /\ Len(frames) \in Nat /\ Len(d) \in Nat
  BY SessionAssumption, LenProperties DEF Framed
<1>2. \A k \in 1 .. Len(frames) : /\ frames[k] \in Seq(Units)
                                  /\ Len(frames[k]) \in 1 .. M
                                  /\ k < Len(frames) => Len(frames[k]) = M
  BY <1>1, StreamSize
<1>3. /\ r \in Nat /\ (r = 0 <=> m = j + 1) /\ j + 1 \in 1 .. Len(frames)
      /\ m \in 1 .. Len(frames) /\ m # j
      /\ r # 0 => j + 1 < Len(frames) /\ r - 1 \in Nat
      /\ r - 1 = m - (j + 1) - 1
  BY <1>1
<1>4. Len(d) = r * M + Len(frames[m])
  BY <1>3 DEF InTransit
<1>5. \A f \in j + 1 .. m : \A q \in 1 .. Len(frames[f]) :
        d[(f - j - 1) * M + q] = frames[f][q]
  BY DEF InTransit
<1>6. e \in Seq(Units) /\ Len(e) \in 1 .. M /\ (r # 0 => Len(e) = M)
  BY <1>2, <1>3
<1> HIDE DEF M, r, e
<1> DEFINE all == r * M  most == (r - 1) * M
<1>7. /\ all \in Nat /\ most = all - M
      /\ r # 0 => most \in Nat
      /\ r = 0 => all = 0
      /\ 0 * M = 0
  <2>1. r \in Int /\ r - 1 \in Int /\ 0 <= r /\ (r # 0 => 0 <= r - 1)
    BY <1>3
  <2>2. 0 * M = 0
    BY <1>1, Multiples
  <2> QED
    BY <1>1, <2>1, <2>2, Multiples
<1>14. Len(d) = all + Len(frames[m])
  BY <1>4
<1> HIDE DEF all, most
<1>8. n = Len(e) /\ n <= Len(d) /\ n \in Nat
  <2>1. Len(frames[m]) \in 1 .. M
    BY <1>2, <1>3
  <2>2. n = IF M < Len(d) THEN M ELSE Len(d)
    BY DEF Least, M
  <2>3. CASE r = 0
    <3>1. Len(frames[m]) = Len(e)
      BY <1>3, <2>3 DEF e
    <3> QED
      BY <1>1, <1>14, <1>6, <1>7, <2>2, <2>3, <3>1
  <2>4. CASE r # 0
    BY <1>1, <1>14, <1>6, <1>7, <2>1, <2>2, <2>4
  <2> QED
    BY <2>3, <2>4
<1>9. SubSeq(d, 1, n) = e
  <2>1. /\ SubSeq(d, 0 + 1, 0 + n) \in Seq(Units)
        /\ Len(SubSeq(d, 0 + 1, 0 + n)) = n
        /\ \A q \in 1 .. n : SubSeq(d, 0 + 1, 0 + n)[q] = d[0 + q]
    BY <1>1, <1>8, Slice
  <2>2. \A q \in 1 .. n : d[q] = e[q]
    <3>1. ASSUME NEW q \in 1 .. n PROVE d[q] = e[q]
      <4>1. j + 1 \in j + 1 .. m /\ j + 1 - j - 1 = 0
        OBVIOUS
      <4>2. d[0 * M + q] = e[q]
        BY <1>5, <1>8, <4>1 DEF e
      <4> QED
        BY <1>7, <1>8, <4>2
    <3> QED
      BY <3>1
  <2>3. \A q \in 1 .. n : 0 + q = q
    BY <1>8
  <2>4. 0 + 1 = 1 /\ 0 + n = n
    BY <1>8
  <2> QED
    BY <1>6, <1>8, <2>1, <2>2, <2>3, <2>4, SeqEqual
<1>10. /\ Rest(d, n) \in Seq(Units)
       /\ Len(Rest(d, n)) = Len(d) - n
       /\ \A q \in 1 .. Len(d) - n : Rest(d, n)[q] = d[n + q]
  <2> DEFINE k == Len(d) - n
  <2>1. k \in Nat /\ n + k = Len(d)
    BY <1>1, <1>8
  <2> HIDE DEF k
  <2>2. /\ SubSeq(d, n + 1, n + k) \in Seq(Units)
        /\ Len(SubSeq(d, n + 1, n + k)) = k
        /\ \A q \in 1 .. k : SubSeq(d, n + 1, n + k)[q] = d[n + q]
    BY <1>8, <2>1, Slice
  <2> QED
    BY <2>1, <2>2 DEF Rest, k
<1>11. Len(Rest(d, n)) = IF m = j + 1 THEN 0 ELSE most + Len(frames[m])
  <2>1. Len(frames[m]) \in Nat
    BY <1>1, <1>2, <1>3
  <2>2. CASE r = 0
    <3>1. Len(frames[m]) = Len(e)
      BY <1>3, <2>2 DEF e
    <3> QED
      BY <1>3, <1>7, <1>8, <1>10, <1>14, <2>1, <2>2, <3>1
  <2>3. CASE r # 0
    <3>1. n = M /\ m # j + 1
      BY <1>3, <1>6, <1>8, <2>3
    <3> QED
      BY <1>1, <1>7, <1>10, <1>14, <2>1, <2>3, <3>1
  <2> QED
    BY <2>2, <2>3
<1>12. ASSUME NEW f \in j + 1 + 1 .. m, NEW q \in 1 .. Len(frames[f])
       PROVE  Rest(d, n)[(f - (j + 1) - 1) * M + q] = frames[f][q]
  <2> DEFINE t == f - (j + 1) - 1
  <2>1. /\ t \in Nat /\ t <= r - 1 /\ (t = r - 1 <=> f = m) /\ r # 0
        /\ f - j - 1 = t + 1 /\ f \in j + 1 .. m /\ f \in 1 .. Len(frames)
    BY <1>1, <1>3 DEF r
  <2> HIDE DEF t
  <2>2. Len(frames[f]) \in 1 .. M /\ q \in 1 .. M
    BY <1>1, <1>2, <2>1
  <2>3. d[(t + 1) * M + q] = frames[f][q]
    BY <1>5, <2>1
  <2> DEFINE before == t * M
  <2>4. /\ (t + 1) * M = before + M /\ before \in Nat
        /\ t + 1 <= r - 1 => before + M <= most
        /\ t = r - 1 => before = most
    <3>1. t \in Int /\ t + 1 \in Int /\ r - 1 \in Int /\ 0 <= t
      BY <1>3, <2>1
    <3>2. t * M \in Int /\ 0 * M <= t * M /\ (t + 1) * M = t * M + M
      BY <1>1, <3>1, Multiples
    <3>3. t + 1 <= r - 1 => (t + 1) * M <= (r - 1) * M
      BY <1>1, <3>1, Multiples
    <3> QED
      BY <1>7, <3>2, <3>3 DEF most
  <2> HIDE DEF before
  <2>5. before + q \in 1 .. Len(d) - n
    <3>1. n = M /\ Len(d) = most + M + Len(frames[m])
      BY <1>1, <1>14, <1>6, <1>7, <1>8, <2>1
    <3>2. CASE f = m
      <4>1. before = most /\ q \in 1 .. Len(frames[m])
        BY <2>1, <2>4, <3>2
      <4> QED
        BY <1>1, <1>7, <2>1, <2>2, <2>4, <3>1, <3>2, <4>1
    <3>3. CASE f # m
      <4>1. before + M <= most /\ Len(frames[m]) \in 1 .. M
        BY <1>2, <1>3, <2>1, <2>4, <3>3
      <4> QED
        BY <1>1, <1>7, <2>1, <2>2, <2>4, <3>1, <4>1
    <3> QED
      BY <3>2, <3>3
  <2>6. Rest(d, n)[before + q] = d[n + (before + q)]
    BY <1>10, <2>5
  <2>7. n + (before + q) = before + M + q
    BY <1>1, <1>6, <1>8, <2>1, <2>2, <2>4, SMTT(30)
  <2>8. d[before + M + q] = frames[f][q]
    BY <2>3, <2>4
  <2> QED
    BY <2>6, <2>7, <2>8 DEF t, before
<1>13. InTransit(Rest(d, n), frames, j + 1, m)
  <2>1. Len(Rest(d, n)) = IF m = j + 1 THEN 0 ELSE (m - (j + 1) - 1) * MaxData + Len(frames[m])
    BY <1>3, <1>11 DEF most, M
  <2>2. \A f \in j + 1 + 1 .. m : \A q \in 1 .. Len(frames[f]) :
          Rest(d, n)[(f - (j + 1) - 1) * MaxData + q] = frames[f][q]
    BY <1>12 DEF M
  <2> QED
    BY <2>1, <2>2 DEF InTransit
<1> QED
  BY <1>8, <1>9, <1>10, <1>13 DEF e

LEMMA TakeAll ==
  ASSUME NEW S, NEW s \in Seq(S)
  PROVE  SubSeq(s, 1, Len(s)) = s /\ Rest(s, Len(s)) = <<>>
<1> DEFINE n == Len(s)
<1>1. n \in Nat
  BY LenProperties
<1>2. /\ SubSeq(s, 0 + 1, 0 + n) \in Seq(S)
      /\ Len(SubSeq(s, 0 + 1, 0 + n)) = n
      /\ \A q \in 1 .. n : SubSeq(s, 0 + 1, 0 + n)[q] = s[0 + q]
  BY <1>1, Slice
<1>3. /\ SubSeq(s, n + 1, n + 0) \in Seq(S)
      /\ Len(SubSeq(s, n + 1, n + 0)) = 0
  <2> HIDE DEF n
  <2> QED
    BY <1>1, Slice DEF n
<1>4. 0 + 1 = 1 /\ 0 + n = n /\ n + 0 = n /\ \A q \in 1 .. n : 0 + q = q
  BY <1>1
<1>5. SubSeq(s, 1, n) = s
  BY <1>2, <1>4, SeqEqual
<1>6. SubSeq(s, n + 1, n) = <<>>
  BY <1>3, <1>4, EmptySeq
<1> QED
  BY <1>5, <1>6 DEF Rest

\* The file send_file reads from, after one frame more.
LEMMA NextFrame ==
  ASSUME NEW S, NEW s \in Seq(S), NEW m \in Nat, m <= Len(s),
         NEW left, left = SubSeq(s, m + 1, Len(s)), left # <<>>
  PROVE  /\ m < Len(s)
         /\ Head(left) = s[m + 1]
         /\ Tail(left) = SubSeq(s, m + 1 + 1, Len(s))
<1> DEFINE k == Len(s) - m
<1>1. k \in Nat /\ Len(s) = m + k
  BY LenProperties
<1> HIDE DEF k
<1>2. /\ left \in Seq(S) /\ Len(left) = k
      /\ \A q \in 1 .. k : left[q] = s[m + q]
  BY <1>1, Slice
<1>3. k > 0 /\ m + 1 <= Len(s)
  BY <1>1, <1>2, EmptySeq
<1>4. /\ Head(left) = left[1] /\ Tail(left) \in Seq(S) /\ Len(Tail(left)) = k - 1
      /\ \A q \in 1 .. k - 1 : Tail(left)[q] = left[q + 1]
  BY <1>1, <1>2, <1>3, HeadTailProperties
<1> DEFINE a == m + 1  b == k - 1
<1>5. a \in Nat /\ b \in Nat /\ a + b = Len(s)
  BY <1>1, <1>3
<1> HIDE DEF a, b
<1>6. /\ SubSeq(s, a + 1, a + b) \in Seq(S)
      /\ Len(SubSeq(s, a + 1, a + b)) = b
      /\ \A q \in 1 .. b : SubSeq(s, a + 1, a + b)[q] = s[a + q]
  BY <1>5, Slice
<1>7. \A q \in 1 .. b : Tail(left)[q] = s[a + q]
  <2>1. ASSUME NEW q \in 1 .. b PROVE Tail(left)[q] = s[a + q]
    <3>1. q + 1 \in 1 .. k /\ m + (q + 1) = a + q /\ q \in 1 .. k - 1
      BY <1>1, <1>3 DEF a, b
    <3> QED
      BY <1>2, <1>4, <3>1
  <2> QED
    BY <2>1
<1>8. Tail(left) = SubSeq(s, a + 1, a + b)
  <2> DEFINE x == Tail(left)  y == SubSeq(s, a + 1, a + b)
  <2>1. x \in Seq(S) /\ Len(x) = b
    BY <1>4 DEF b
  <2>2. /\ y \in Seq(S) /\ Len(y) = b
        /\ \A q \in 1 .. b : x[q] = y[q]
    BY <1>6, <1>7
  <2> HIDE DEF x, y
  <2>3. x = y
    BY <2>1, <2>2, SeqEqual
  <2> QED
    BY <2>3 DEF x, y
<1>9. left[1] = s[m + 1]
  BY <1>1, <1>2, <1>3
<1> QED
  BY <1>3, <1>4, <1>5, <1>8, <1>9 DEF a

LEMMA LongerPrefix ==
  ASSUME NEW S, NEW s \in Seq(S), NEW a \in Nat, NEW n \in Nat, a + n <= Len(s),
         NEW w \in Seq(S), Len(w) = n, \A q \in 1 .. n : w[q] = s[a + q]
  PROVE  SubSeq(s, 1, a) \o w = SubSeq(s, 1, a + n)
<1> DEFINE p == SubSeq(s, 1, a)  r == SubSeq(s, 1, a + n)
<1>1. Len(s) \in Nat /\ a <= Len(s) /\ a + n \in Nat
  BY LenProperties
<1>2. p \in Seq(S) /\ Len(p) = a /\ \A q \in 1 .. a : p[q] = s[q]
  <2>1. /\ SubSeq(s, 0 + 1, 0 + a) \in Seq(S) /\ Len(SubSeq(s, 0 + 1, 0 + a)) = a
        /\ \A q \in 1 .. a : SubSeq(s, 0 + 1, 0 + a)[q] = s[0 + q]
    BY <1>1, Slice
  <2>2. 0 + 1 = 1 /\ 0 + a = a /\ \A q \in 1 .. a : 0 + q = q
    OBVIOUS
  <2> QED
    BY <2>1, <2>2
<1>3. r \in Seq(S) /\ Len(r) = a + n /\ \A q \in 1 .. a + n : r[q] = s[q]
  <2> DEFINE b == a + n
  <2>0. b \in Nat /\ b <= Len(s)
    BY <1>1
  <2> HIDE DEF b
  <2>1. /\ SubSeq(s, 0 + 1, 0 + b) \in Seq(S) /\ Len(SubSeq(s, 0 + 1, 0 + b)) = b
        /\ \A q \in 1 .. b : SubSeq(s, 0 + 1, 0 + b)[q] = s[0 + q]
    BY <2>0, Slice
  <2>2. 0 + 1 = 1 /\ 0 + b = b /\ \A q \in 1 .. b : 0 + q = q
    BY <2>0
  <2> QED
    BY <2>1, <2>2 DEF b
<1> HIDE DEF p, r
<1> DEFINE joined == p \o w
<1>4. /\ joined \in Seq(S) /\ Len(joined) = a + n
      /\ \A q \in 1 .. a + n : joined[q] = IF q <= a THEN p[q] ELSE w[q - a]
  BY <1>2, ConcatProperties
<1> HIDE DEF joined
<1>5. ASSUME NEW q \in 1 .. a + n PROVE joined[q] = r[q]
  <2>1. CASE q <= a
    BY <1>2, <1>3, <1>4, <2>1
  <2>2. CASE q > a
    <3>1. q - a \in 1 .. n /\ a + (q - a) = q
      BY <2>2
    <3>2. w[q - a] = s[q]
      BY <3>1
    <3> QED
      BY <1>3, <1>4, <2>2, <3>2
  <2> QED
    BY <2>1, <2>2
<1>6. joined = r
  BY <1>1, <1>3, <1>4, <1>5, SeqEqual
<1> QED
  BY <1>6 DEF joined, p, r

\* What a client prints of a frame in its buffer: the words of the frame and
\* nothing of what the buffer held before.
LEMMA PrintFrame ==
  ASSUME NEW text \in Seq(Vocabulary), NEW j \in 0 .. FrameCount(text) - 1,
         NEW buf \in [1 .. MaxData -> Units],
         \A i \in 1 .. Len(Frames(text)[j + 1]) : buf[i] = Frames(text)[j + 1][i],
         NEW n, n = IF buf[1].len >= MaxData THEN buf[1].len - MaxData ELSE buf[1].len
  PROVE  /\ buf[1].len # -1
         /\ buf[1].len < MaxData <=> j + 1 = FrameCount(text)
         /\ ShownUpTo(text, j) \o Words(SubSeq(buf, 2, n + 1)) = ShownUpTo(text, j + 1)
<1> DEFINE N == FrameCount(text)  L == Len(text)  a == j * Payload
           l == Least(Payload, L - a)  frame == Frames(text)[j + 1]
<1>1. /\ MaxData \in Nat /\ MaxData >= 3 /\ Payload = MaxData - 1 /\ L \in Nat /\ N \in Nat
  BY SessionAssumption, LenProperties, FrameCounts DEF Payload
<1>2. j + 1 \in 1 .. N /\ j + 1 - 1 = j /\ j \in Nat
  BY <1>1
<1>3. a \in Nat /\ a < L /\ (j + 1) * Payload = a + Payload
  <2>1. (j + 1) * Payload = j * Payload + Payload
    BY <1>1, <1>2, Multiples
  <2> QED
    BY <1>2, <2>1, FrameCounts
<1>4. /\ l \in 1 .. Payload
      /\ Len(frame) = l + 1
      /\ frame[1].len = IF j + 1 < N THEN l + MaxData ELSE l
      /\ \A q \in 1 .. l : frame[q + 1].word = text[a + q]
  <2> DEFINE k == j + 1
  <2>1. /\ Least(Payload, Len(text) - (k - 1) * Payload) \in 1 .. Payload
        /\ Len(Frames(text)[k]) = Least(Payload, Len(text) - (k - 1) * Payload) + 1
        /\ Frames(text)[k][1].len =
             IF k < N THEN Least(Payload, Len(text) - (k - 1) * Payload) + MaxData
             ELSE Least(Payload, Len(text) - (k - 1) * Payload)
        /\ \A q \in 1 .. Least(Payload, Len(text) - (k - 1) * Payload) :
             Frames(text)[k][q + 1].word = text[(k - 1) * Payload + q]
    <3>1. k \in 1 .. N
      BY <1>2
    <3> HIDE DEF k
    <3> QED
      BY <3>1, FramesOf
  <2>2. k - 1 = j
    BY <1>2
  <2> QED
    BY <2>1, <2>2
<1> HIDE DEF N, L, a, l, frame
<1>5. \A i \in 1 .. l + 1 : buf[i] = frame[i]
  BY <1>4 DEF frame
<1>6. buf[1].len = IF j + 1 < N THEN l + MaxData ELSE l
  BY <1>1, <1>4, <1>5
<1>7. n = l /\ buf[1].len # -1 /\ (buf[1].len < MaxData <=> j + 1 = N)
  BY <1>1, <1>2, <1>4, <1>6
<1> DEFINE part == SubSeq(buf, 2, n + 1)
<1>8. part \in Seq(Units) /\ Len(part) = l /\ \A q \in 1 .. l : part[q] = buf[q + 1]
  <2>1. buf \in Seq(Units) /\ Len(buf) = MaxData
    BY <1>1
  <2>2. /\ SubSeq(buf, 1 + 1, 1 + l) \in Seq(Units)
        /\ Len(SubSeq(buf, 1 + 1, 1 + l)) = l
        /\ \A q \in 1 .. l : SubSeq(buf, 1 + 1, 1 + l)[q] = buf[1 + q]
    BY <1>1, <1>4, <2>1, Slice
  <2>3. 1 + 1 = 2 /\ 1 + l = n + 1 /\ \A q \in 1 .. l : 1 + q = q + 1
    BY <1>1, <1>4, <1>7
  <2> QED
    BY <2>2, <2>3
<1> HIDE DEF part
<1> DEFINE w == Words(part)
<1>9. w \in Seq(Vocabulary) /\ Len(w) = l /\ \A q \in 1 .. l : w[q] = text[a + q]
  <2>1. \A q \in 1 .. l : part[q] \in Units
    BY <1>8, ElementOfSeq
  <2>2. \A q \in 1 .. l : part[q].word \in Vocabulary
    BY <2>1 DEF Units
  <2>3. w = [q \in 1 .. l |-> part[q].word]
    BY <1>8 DEF Words
  <2>4. ASSUME NEW q \in 1 .. l PROVE part[q].word = text[a + q]
    <3>1. q + 1 \in 1 .. l + 1
      BY <1>1, <1>4
    <3> QED
      BY <1>4, <1>5, <1>8, <3>1
  <2>5. l \in Nat
    BY <1>1, <1>4
  <2> QED
    BY <2>2, <2>3, <2>4, <2>5
<1> HIDE DEF w
<1>10. SubSeq(text, 1, a) \o w = SubSeq(text, 1, a + l)
  <2>1. l \in Nat /\ a + l <= Len(text)
    BY <1>1, <1>3, <1>4 DEF l, L, Least
  <2> QED
    BY <1>3, <1>9, <2>1, LongerPrefix
<1>11. ShownUpTo(text, j) = SubSeq(text, 1, a)
  <2>1. Least(a, L) = a
    BY <1>1, <1>3 DEF Least
  <2> QED
    BY <2>1 DEF ShownUpTo, a, L
<1>12. ShownUpTo(text, j + 1) = SubSeq(text, 1, a + l)
  <2>1. Least(a + Payload, L) = a + l
    BY <1>1, <1>3 DEF Least, l
  <2> QED
    BY <1>3, <2>1 DEF ShownUpTo, L
<1> QED
  BY <1>7, <1>10, <1>11, <1>12 DEF w, part, N

LEMMA AllShown ==
  ASSUME NEW text \in Seq(Vocabulary)
  PROVE  ShownUpTo(text, FrameCount(text)) = text
<1>1. Len(text) <= FrameCount(text) * Payload /\ Len(text) \in Nat
  BY FrameCounts, LenProperties
<1>2. FrameCount(text) * Payload \in Int
  BY FrameCounts, SessionAssumption, Multiples DEF Payload
<1>3. Least(FrameCount(text) * Payload, Len(text)) = Len(text)
  BY <1>1, <1>2 DEF Least
<1> QED
  BY <1>3, TakeAll DEF ShownUpTo

-----------------------------------------------------------------------------
(***************************************************************************)
(* Commands.                                                               *)
(***************************************************************************)
LEMMA OrderShape ==
  ASSUME NEW order \in Orders
  PROVE  /\ order = <<order[1], order[2], order[3]>>
         /\ order[1] \in Vocabulary /\ order[2] \in Vocabulary /\ order[3] \in Vocabulary
         /\ order[1] \in Named => order[2] \in Names
<1>1. CASE order \in {Command(v, n) : v \in Verbs \cap Named, n \in Names}
  <2>1. PICK v \in Verbs \cap Named, n \in Names : order = Command(v, n)
    BY <1>1
  <2> QED
    BY <2>1 DEF Command, Vocabulary
<1>2. CASE order \in {Command(v, Zeros) : v \in Verbs \ Named}
  <2>1. PICK v \in Verbs \ Named : order = Command(v, Zeros)
    BY <1>2
  <2> QED
    BY <2>1 DEF Command, Vocabulary
<1> QED
  BY <1>1, <1>2 DEF Orders

\* The 512 bytes of a command begin with its words.
LEMMA MessageOf ==
  ASSUME NEW order \in Orders
  PROVE  /\ Message(order) \in Seq(Vocabulary)
         /\ Message(order) \in [1 .. MaxData -> Vocabulary]
         /\ Len(Message(order)) = MaxData
         /\ Message(order) # <<>>
         /\ SubSeq(Message(order), 1, 3) = order
<1> DEFINE m == Message(order)
<1>1. MaxData \in Nat /\ MaxData >= 3
  BY SessionAssumption
<1>2. m \in [1 .. MaxData -> Vocabulary]
  <2>1. ASSUME NEW i \in 1 .. MaxData
        PROVE  (IF i <= 3 THEN order[i] ELSE Zeros) \in Vocabulary
    <3>1. Zeros \in Vocabulary
      BY DEF Vocabulary
    <3>2. i <= 3 => i = 1 \/ i = 2 \/ i = 3
      BY <1>1
    <3> QED
      BY <3>1, <3>2, OrderShape
  <2> QED
    BY <2>1 DEF Message
<1>3. m \in Seq(Vocabulary) /\ Len(m) = MaxData
  BY <1>1, <1>2
<1>4. /\ SubSeq(m, 0 + 1, 0 + 3) \in Seq(Vocabulary)
      /\ Len(SubSeq(m, 0 + 1, 0 + 3)) = 3
      /\ \A q \in 1 .. 3 : SubSeq(m, 0 + 1, 0 + 3)[q] = m[0 + q]
  <2> HIDE DEF m
  <2> QED
    BY <1>1, <1>3, Slice
<1>5. \A q \in 1 .. 3 : m[q] = order[q]
  BY <1>1 DEF Message
<1>6. order \in Seq(Vocabulary) /\ Len(order) = 3
  <2> DEFINE a == order[1]  b == order[2]  c == order[3]
  <2>1. order = <<a, b, c>> /\ a \in Vocabulary /\ b \in Vocabulary /\ c \in Vocabulary
    BY OrderShape
  <2> HIDE DEF a, b, c
  <2> QED
    BY <2>1
<1> HIDE DEF m
<1>7. SubSeq(m, 1, 3) = order
  <2>1. 0 + 1 = 1 /\ 0 + 3 = 3 /\ \A q \in 1 .. 3 : 0 + q = q
    OBVIOUS
  <2> QED
    BY <1>4, <1>5, <1>6, <2>1, SeqEqual
<1>8. m # <<>>
  BY <1>1, <1>3, EmptySeq
<1> QED
  BY <1>2, <1>3, <1>7, <1>8 DEF m

LEMMA EffectKeeps ==
  ASSUME NEW d \in Databases, NEW order \in Orders
  PROVE  /\ Effect(d, order) \in Databases
         /\ Effect(d, order) = Broken <=> d = Broken
<1>1. CASE d = Broken
  BY <1>1 DEF Effect, Databases
<1>2. CASE d # Broken
  <2> DEFINE name == order[2]
  <2>1. PICK D \in SUBSET Names : d \in [D -> BOOLEAN]
    BY <1>2 DEF Databases, Installed
  <2>2. \A E \in SUBSET Names : \A e \in [E -> BOOLEAN] : e \in Databases /\ e # Broken
    BY CommandsAssumption DEF Databases, Installed
  <2>3. CASE order[1] = "create"
    <3> DEFINE e == [n \in DOMAIN d \cup {name} |-> IF n \in DOMAIN d THEN d[n] ELSE FALSE]
    <3>1. name \in Names
      BY <2>3, OrderShape DEF Named
    <3>2. e \in [D \cup {name} -> BOOLEAN] /\ D \cup {name} \in SUBSET Names
      BY <2>1, <3>1
    <3>3. Effect(d, order) = e
      BY <1>2, <2>3 DEF Effect, Created
    <3> QED
      BY <1>2, <2>2, <3>2, <3>3
  <2>4. CASE order[1] = "drop"
    <3>1. Without(d, name) \in [D \ {name} -> BOOLEAN] /\ D \ {name} \in SUBSET Names
      BY <2>1 DEF Without
    <3>2. Effect(d, order) = Without(d, name)
      BY <1>2, <2>4 DEF Effect
    <3> QED
      BY <1>2, <2>2, <3>1, <3>2
  <2>5. CASE order[1] = "add" /\ name \in DOMAIN d
    <3>1. [d EXCEPT ![name] = TRUE] \in [D -> BOOLEAN]
      BY <2>1
    <3>2. Effect(d, order) = [d EXCEPT ![name] = TRUE]
      BY <1>2, <2>5 DEF Effect, Added
    <3> QED
      BY <1>2, <2>2, <3>1, <3>2
  <2>6. CASE order[1] = "delete" /\ name \in DOMAIN d
    <3>1. [d EXCEPT ![name] = FALSE] \in [D -> BOOLEAN]
      BY <2>1
    <3>2. Effect(d, order) = [d EXCEPT ![name] = FALSE]
      BY <1>2, <2>6 DEF Effect, Deleted
    <3> QED
      BY <1>2, <2>2, <3>1, <3>2
  <2>7. CASE /\ order[1] \notin {"create", "drop"}
             /\ ~(order[1] = "add" /\ name \in DOMAIN d)
             /\ ~(order[1] = "delete" /\ name \in DOMAIN d)
    <3>1. Effect(d, order) = d
      BY <1>2, <2>7 DEF Effect
    <3> QED
      BY <1>2, <2>1, <2>2, <3>1
  <2> QED
    BY <2>3, <2>4, <2>5, <2>6, <2>7
<1> QED
  BY <1>1, <1>2

\* The names of a database, as a sequence of words.
LEMMA SetAsSequence ==
  ASSUME NEW S \in SUBSET Names
  PROVE  SetToSeq(S) \in Seq(S)
<1>1. IsFiniteSet(S)
  BY CommandsAssumption, FS_Subset
<1>2. /\ Cardinality(S) \in Nat
      /\ ExistsBijection(1 .. Cardinality(S), S)
  BY <1>1, FS_CardinalityType
<1>3. \E f \in [1 .. Cardinality(S) -> S] : IsInjective(f)
  BY <1>2 DEF ExistsBijection, Bijection, Injection
<1>4. SetToSeq(S) \in [1 .. Cardinality(S) -> S]
  BY <1>3 DEF SetToSeq
<1> HIDE DEF CommandsAssumption
<1> QED
  BY <1>2, <1>4

LEMMA LinesAre ==
  ASSUME NEW d \in Databases, NEW order \in Orders, NEW l \in Lines(d, order)
  PROVE  l \in Seq(Vocabulary)
<1>1. /\ <<>> \in Seq(Vocabulary) /\ <<"junk">> \in Seq(Vocabulary)
      /\ <<"map", "not exist">> \in Seq(Vocabulary) /\ <<"value">> \in Seq(Vocabulary)
      /\ <<"0">> \in Seq(Vocabulary) /\ <<"1">> \in Seq(Vocabulary)
  BY DEF Vocabulary
<1>2. CASE d = Broken
  BY <1>1, <1>2 DEF Lines
<1>3. CASE d # Broken
  <2> DEFINE name == order[2]
  <2>1. DOMAIN d \in SUBSET Names
    BY <1>3 DEF Databases, Installed
  <2>2. CASE order[1] = "show"
    <3>1. l = SetToSeq(DOMAIN d)
      BY <1>3, <2>2 DEF Lines, Named, Listed
    <3>2. l \in Seq(DOMAIN d)
      BY <2>1, <3>1, SetAsSequence
    <3>3. DOMAIN d \subseteq Vocabulary
      BY <2>1 DEF Vocabulary
    <3> QED
      BY <3>2, <3>3
  <2>3. CASE order[1] \in Named \ {"create", "drop"} /\ name \notin DOMAIN d
    BY <1>1, <1>3, <2>3 DEF Lines, Named, NotExist
  <2>4. CASE order[1] = "size" /\ name \in DOMAIN d
    BY <1>1, <1>3, <2>4 DEF Lines, Named, Sized
  <2>5. CASE order[1] = "get" /\ name \in DOMAIN d
    BY <1>1, <1>3, <2>5 DEF Lines, Named, Got
  <2>6. CASE /\ order[1] # "show"
             /\ ~(order[1] \in Named \ {"create", "drop"} /\ name \notin DOMAIN d)
             /\ ~(order[1] = "size" /\ name \in DOMAIN d)
             /\ ~(order[1] = "get" /\ name \in DOMAIN d)
    BY <1>1, <1>3, <2>6 DEF Lines
  <2> QED
    BY <2>2, <2>3, <2>4, <2>5, <2>6
<1> QED
  BY <1>2, <1>3

LEMMA AnswersAre ==
  ASSUME NEW d \in Databases, NEW order \in Orders, NEW a \in Answers(d, order)
  PROVE  /\ a \in Seq(Vocabulary) /\ a # <<>>
         /\ order[1] = "exit" => a = GoodBye
         /\ order = Reset => order[1] # "exit"
<1>1. Question \in Seq(Vocabulary) /\ GoodBye \in Seq(Vocabulary) /\ Prompt \in Vocabulary
  BY DEF Question, GoodBye, Vocabulary
<1>2. Question # <<>> /\ GoodBye # <<>>
  BY DEF Question, GoodBye
<1>3. Reset[1] = "reset"
  BY DEF Reset, Command
<1>4. order = Reset => order[1] # "exit"
  BY <1>3
<1>5. CASE order = Reset
  BY <1>1, <1>2, <1>4, <1>5 DEF Answers
<1>6. CASE order[1] = "exit"
  BY <1>1, <1>2, <1>4, <1>6 DEF Answers
<1>7. CASE order # Reset /\ order[1] # "exit"
  <2>1. PICK l \in Lines(d, order) : a = Append(l, Prompt)
    BY <1>7 DEF Answers
  <2>2. l \in Seq(Vocabulary)
    BY LinesAre
  <2>3. a \in Seq(Vocabulary) /\ Len(a) = Len(l) + 1 /\ Len(l) \in Nat
    BY <1>1, <2>1, <2>2, AppendProperties
  <2>4. a # <<>>
    BY <2>3, EmptySeq
  <2> QED
    BY <1>7, <2>3, <2>4
<1> QED
  BY <1>4, <1>5, <1>6, <1>7

-----------------------------------------------------------------------------
(***************************************************************************)
(* Receiving.                                                              *)
(***************************************************************************)
\* Assumption of the theorems: a recv finds all that was written.
WholeWrites == Split = FALSE

LEMMA OverlayOf ==
  ASSUME NEW S, NEW buf \in [1 .. MaxData -> S], NEW got \in Seq(S),
         Len(got) <= MaxData
  PROVE  /\ Overlay(buf, got) \in [1 .. MaxData -> S]
         /\ \A i \in 1 .. Len(got) : Overlay(buf, got)[i] = got[i]
<1>1. Len(got) \in Nat /\ MaxData \in Nat
  BY LenProperties, SessionAssumption
<1>2. \A i \in 1 .. MaxData : (IF i <= Len(got) THEN got[i] ELSE buf[i]) \in S
  BY <1>1, ElementOfSeq
<1> QED
  BY <1>1, <1>2 DEF Overlay

\* The server takes the whole command, and nothing stays in the stream.
LEMMA RecvOrder ==
  ASSUME WholeWrites, Typed, cur \in Clients, Recv
  PROVE  \E order \in Orders : /\ recebuf' = Message(order)
                              /\ Order = order
                              /\ up[cur] = Message(order)
                              /\ up' = [up EXCEPT ![cur] = <<>>]
<1>1. PICK order \in Orders : up[cur] = Message(order)
  BY DEF Typed, Recv
<1> DEFINE m == Message(order)
<1>2. /\ m \in Seq(Vocabulary) /\ Len(m) = MaxData
      /\ m \in [1 .. MaxData -> Vocabulary]
      /\ SubSeq(m, 1, 3) = order
  BY MessageOf
<1> HIDE DEF m
<1>3. MaxData \in Nat /\ Least(MaxData, Len(m)) = MaxData
  BY <1>2, SessionAssumption DEF Least
<1>4. Received(m) = {MaxData}
  BY <1>3 DEF Received, WholeWrites
<1>5. SubSeq(m, 1, MaxData) = m /\ Rest(m, MaxData) = <<>>
  BY <1>2, TakeAll
<1>6. recebuf' = Overlay(recebuf, m) /\ up' = [up EXCEPT ![cur] = <<>>]
  BY <1>1, <1>4, <1>5 DEF Recv, m
<1>7. Overlay(recebuf, m) = m
  <2>1. recebuf \in [1 .. MaxData -> Vocabulary]
    BY DEF Typed
  <2>2. /\ Overlay(recebuf, m) \in [1 .. MaxData -> Vocabulary]
        /\ \A i \in 1 .. MaxData : Overlay(recebuf, m)[i] = m[i]
    BY <1>2, <1>3, <2>1, OverlayOf
  <2> QED
    BY <1>2, <2>2
<1>8. Order = order
  BY <1>2, <1>6, <1>7 DEF Order
<1> QED
  BY <1>1, <1>6, <1>7, <1>8 DEF m

-----------------------------------------------------------------------------
(***************************************************************************)
(* The invariant, step by step.                                            *)
(***************************************************************************)
\* A step of others leaves a client as it is.
LEMMA Untouched ==
  ASSUME NEW c \in Clients, ClientInv(c),
         client'[c] = client[c], screen'[c] = screen[c], down'[c] = down[c],
         up'[c] = up[c], reply'[c] = reply[c], Queued(c)' => Queued(c),
         cur' = c => cur = c /\ out' = out
                       /\ (server' \in {"clear", "install"} =>
                              server \in {"clear", "install"})
  PROVE  ClientInv(c)'
<1>1. Waiting(c) => Waiting(c)'
  BY DEF Waiting
<1>2. Reading(c) => Reading(c)'
  BY DEF Reading
<1>3. Done(c) => Done(c)'
  BY DEF Done
<1> QED
  BY <1>1, <1>2, <1>3 DEF ClientInv, Resetting

\* A new answer: nothing of it is printed, all of it is still in the file.
LEMMA AnswerStarts ==
  ASSUME NEW c \in Clients, NEW text \in Seq(Vocabulary), text # <<>>,
         client'[c] = "recv", screen'[c] = <<>>, down'[c] = <<>>,
         reply'[c] = text, out' = Frames(text)
  PROVE  Reading(c)'
<1>1. FrameCount(text) \in Nat \ {0}
  BY FrameCounts
<1>2. Frames(text) \in Seq(Seq(Units)) /\ Len(Frames(text)) = FrameCount(text)
  BY FramesOf
<1>3. ShownUpTo(text, 0) = <<>>
  <2>1. Len(text) \in Nat /\ Payload \in Nat /\ 0 * Payload = 0
    BY SessionAssumption, LenProperties, Multiples DEF Payload
  <2>2. Least(0 * Payload, Len(text)) = 0
    BY <2>1 DEF Least
  <2>3. SubSeq(text, 0 + 1, 0 + 0) \in Seq(Vocabulary)
        /\ Len(SubSeq(text, 0 + 1, 0 + 0)) = 0
    BY <2>1, Slice
  <2> QED
    BY <2>2, <2>3, EmptySeq DEF ShownUpTo
<1>4. InTransit(<<>>, Frames(text), 0, 0)
  BY DEF InTransit
<1>5. out' = SubSeq(Frames(text), 0 + 1, Len(Frames(text)))
  BY <1>2, TakeAll
<1> QED
  BY <1>1, <1>3, <1>4, <1>5 DEF Reading

LEMMA DieKeeps ==
  ASSUME IInv, Die, cut' \in BOOLEAN
  PROVE  IInv'
<1> USE DEF Die, clientVars
<1>1. Typed'
  <2>1. out' \in Seq(Seq(Units) \ {<<>>}) /\ out' \in Seq(Seq(Units)) /\ queue' \in Seq(Clients)
    OBVIOUS
  <2> QED
    BY <2>1 DEF IInv, Typed, TypeOK
<1>2. ServerInv' /\ QueueInv'
  BY SessionAssumption DEF ServerInv, QueueInv, Talking
<1>3. ASSUME NEW c \in Clients PROVE ClientInv(c)'
  BY SessionAssumption, Untouched DEF IInv, Queued
<1> QED
  BY <1>1, <1>2, <1>3 DEF IInv

LEMMA RestartKeeps ==
  ASSUME IInv, Restart
  PROVE  IInv'
<1> USE DEF Restart, clientVars
<1>1. Typed'
  <2>1. MaxData \in Nat /\ Zeros \in Vocabulary /\ "junk" \in Vocabulary
    BY SessionAssumption DEF Vocabulary
  <2>2. recebuf' \in [1 .. MaxData -> Vocabulary] /\ recebuf' \in Seq(Vocabulary)
    BY <2>1 DEF Uninitialised
  <2> QED
    BY <2>2 DEF IInv, Typed, TypeOK
<1>2. ServerInv' /\ QueueInv'
  BY DEF IInv, ServerInv, QueueInv, Talking
<1>3. ASSUME NEW c \in Clients PROVE ClientInv(c)'
  BY Untouched DEF IInv, Queued
<1> QED
  BY <1>1, <1>2, <1>3 DEF IInv

LEMMA LeaveKeeps ==
  ASSUME IInv, SignOff \/ Hangup
  PROVE  IInv'
<1> USE DEF SignOff, Hangup, Leave, Listening, clientVars
<1>1. /\ server' = "accept" /\ cur' = Nobody /\ out = <<>>
      /\ open' \subseteq open /\ server # "down"
      /\ UNCHANGED <<recebuf, db, out, clientVars, cut, queue, up, down, reply>>
  OBVIOUS
<1>2. Typed'
  BY <1>1 DEF IInv, Typed, TypeOK
<1>3. ServerInv'
  BY <1>1, SessionAssumption DEF ServerInv, Talking
<1>4. QueueInv'
  BY <1>1 DEF IInv, QueueInv
<1>5. ASSUME NEW c \in Clients PROVE ClientInv(c)'
  BY <1>1, SessionAssumption, Untouched DEF IInv, Queued
<1> QED
  BY <1>2, <1>3, <1>4, <1>5 DEF IInv

LEMMA ClearKeeps ==
  ASSUME IInv, Clear
  PROVE  IInv'
<1> USE DEF Clear, clientVars
<1>1. Typed'
  BY DEF IInv, Typed, TypeOK, Databases
<1>2. ServerInv'
  BY DEF IInv, ServerInv, Talking
<1>3. QueueInv'
  BY DEF IInv, QueueInv
<1>4. ASSUME NEW c \in Clients PROVE ClientInv(c)'
  BY Untouched DEF IInv, Queued
<1> QED
  BY <1>1, <1>2, <1>3, <1>4 DEF IInv

LEMMA AcceptKeeps ==
  ASSUME IInv, Accept
  PROVE  IInv'
<1> DEFINE text == <<Prompt>>  n == Len(queue)
<1>0. PICK c : c = Head(queue)
  OBVIOUS
<1>1. queue \in Seq(Clients) /\ queue # <<>> /\ n \in Nat /\ n > 0
  <2>1. queue \in Seq(Clients) /\ queue # <<>>
    BY DEF IInv, Typed, TypeOK, Accept
  <2> QED
    BY <2>1, LenProperties, EmptySeq
<1>2. /\ c = queue[1] /\ c \in Clients /\ Tail(queue) \in Seq(Clients)
      /\ DOMAIN Tail(queue) = 1 .. n - 1 /\ DOMAIN queue = 1 .. n
      /\ \A i \in 1 .. n - 1 : Tail(queue)[i] = queue[i + 1]
  BY <1>0, <1>1, HeadTailProperties
<1>3. text \in Seq(Vocabulary) /\ text # <<>>
  BY DEF Vocabulary
<1> HIDE DEF text
<1>4. Frames(text) \in Seq(Seq(Units) \ {<<>>}) /\ Frames(text) \in Seq(Seq(Units))
  BY <1>3, FramesOf
<1>5. /\ cur' = c /\ queue' = Tail(queue) /\ open' = open \cup {c} /\ server' = "order"
      /\ out' = Frames(text) /\ reply' = [reply EXCEPT ![c] = text]
      /\ UNCHANGED <<recebuf, db, clientVars, cut, up, down>>
  BY <1>0 DEF Accept, Answer, text
<1>6. client[c] \in {"recv", "gone"} /\ up[c] = <<>> /\ (client[c] = "recv" => Waiting(c))
  BY <1>1, <1>2 DEF IInv, ClientInv, Queued
<1> HIDE DEF n
<1> USE DEF clientVars
<1>7. Typed'
  <2>1. reply' \in [Clients -> Seq(Vocabulary)]
    BY <1>2, <1>3, <1>5 DEF IInv, Typed, TypeOK
  <2> QED
    BY <1>2, <1>4, <1>5, <2>1 DEF IInv, Typed, TypeOK
<1>8. ServerInv'
  BY <1>2, <1>5, <1>6 DEF ServerInv, Talking
<1>9. QueueInv'
  <2>1. ASSUME NEW i \in DOMAIN queue'
        PROVE  /\ i + 1 \in DOMAIN queue /\ queue'[i] = queue[i + 1]
               /\ queue'[i] # c
    BY <1>1, <1>2, <1>5 DEF IInv, QueueInv
  <2>2. ASSUME NEW i \in DOMAIN queue', NEW k \in DOMAIN queue', i # k
        PROVE  queue'[i] # queue'[k]
    <3>1. i + 1 # k + 1
      BY <1>1, <1>2, <1>5, <2>2
    <3> QED
      BY <2>1, <3>1 DEF IInv, QueueInv
  <2> QED
    BY <2>2 DEF QueueInv
<1>10. ASSUME NEW x \in Clients PROVE ClientInv(x)'
  <2>0. (Queued(x)' => Queued(x)) /\ ~Queued(c)'
    <3>1. ASSUME NEW i \in DOMAIN queue'
          PROVE  /\ i + 1 \in DOMAIN queue /\ queue'[i] = queue[i + 1]
                 /\ queue'[i] # c
      BY <1>1, <1>2, <1>5 DEF IInv, QueueInv
    <3> QED
      BY <3>1 DEF Queued
  <2>1. CASE x # c
    BY <1>2, <1>5, <2>0, <2>1, Untouched DEF IInv, Typed, TypeOK
  <2>2. CASE x = c /\ client[c] = "gone"
    BY <1>5, <2>0, <2>2 DEF ClientInv, Queued
  <2>3. CASE x = c /\ client[c] = "recv"
    <3>1. Waiting(c)
      BY <1>6, <2>3
    <3>2. Reading(x)'
      BY <1>2, <1>3, <1>5, <2>3, <3>1, AnswerStarts DEF Waiting, IInv, Typed, TypeOK
    <3>3. ~Resetting(x)' /\ ~Queued(x)'
      BY <1>5, <2>0, <2>3 DEF Resetting, Queued
    <3> QED
      BY <1>5, <1>6, <2>3, <3>2, <3>3 DEF ClientInv
  <2> QED
    BY <1>6, <2>1, <2>2, <2>3
<1> QED
  BY <1>7, <1>8, <1>9, <1>10 DEF IInv

LEMMA InstallKeeps ==
  ASSUME IInv, Install
  PROVE  IInv'
<1> DEFINE text == <<Prompt>>
<1>1. text \in Seq(Vocabulary) /\ text # <<>>
  BY DEF Vocabulary
<1> HIDE DEF text
<1>2. Frames(text) \in Seq(Seq(Units) \ {<<>>}) /\ Frames(text) \in Seq(Seq(Units))
  BY <1>1, FramesOf
<1>3. /\ server = "install" /\ server' = "order" /\ db' = Fresh /\ cut' = FALSE
      /\ out' = Frames(text) /\ reply' = [reply EXCEPT ![cur] = text]
      /\ UNCHANGED <<cur, recebuf, open, clientVars, queue, up, down>>
  BY DEF Install, Answer, text
<1> USE DEF clientVars
<1>4. cur \in Clients /\ client[cur] # "off"
  BY <1>3 DEF IInv, ServerInv, Talking
<1>5. Typed'
  <2>1. reply' \in [Clients -> Seq(Vocabulary)]
    BY <1>1, <1>3, <1>4 DEF IInv, Typed, TypeOK
  <2>2. db' \in Databases
    <3>1. Fresh \in [{} -> BOOLEAN]
      BY DEF Fresh
    <3> QED
      BY <1>3, <3>1 DEF Databases, Installed
  <2> QED
    BY <1>2, <1>3, <2>1, <2>2 DEF IInv, Typed, TypeOK
<1>6. ServerInv'
  BY <1>3, <1>4 DEF ServerInv, Talking
<1>7. QueueInv'
  BY <1>3 DEF IInv, QueueInv
<1>8. ASSUME NEW c \in Clients PROVE ClientInv(c)'
  <2>0. ~Queued(cur)
    BY <1>4 DEF IInv, ClientInv
  <2>1. CASE c # cur
    BY <1>3, <2>1, Untouched DEF IInv, Typed, TypeOK, Queued
  <2>2. CASE c = cur /\ client[c] = "gone"
    BY <1>3, <2>0, <2>2 DEF ClientInv, Queued
  <2>3. CASE c = cur /\ client[c] = "recv"
    <3>1. Waiting(c) /\ up[c] = <<>>
      BY <1>3, <2>3 DEF IInv, ClientInv, Resetting
    <3>2. Reading(c)'
      BY <1>1, <1>3, <2>3, <3>1, AnswerStarts DEF Waiting, IInv, Typed, TypeOK
    <3>3. ~Resetting(c)' /\ ~Queued(c)'
      BY <1>3, <2>0, <2>3 DEF Resetting, Queued
    <3> QED
      BY <1>3, <2>3, <3>1, <3>2, <3>3 DEF ClientInv
  <2>4. client[cur] \in {"recv", "gone"}
    BY <1>3, <1>4 DEF IInv, ClientInv, Typed, TypeOK, Resetting
  <2> QED
    BY <2>1, <2>2, <2>3, <2>4
<1> QED
  BY <1>5, <1>6, <1>7, <1>8 DEF IInv

\* While the server waits for a command or a confirmation, its client waits
\* too or is gone.
LEMMA CommandComes ==
  ASSUME IInv, cur \in Clients, up[cur] # <<>>
  PROVE  /\ client[cur] \in {"recv", "gone"}
         /\ client[cur] = "recv" => Waiting(cur)
         /\ ~Queued(cur)
<1>1. client[cur] \in {"off", "recv", "type", "gone"} /\ ClientInv(cur)
  BY DEF IInv, Typed, TypeOK
<1> QED
  BY <1>1 DEF ClientInv, Done

LEMMA ServeKeeps ==
  ASSUME WholeWrites, IInv, Serve
  PROVE  IInv'
<1>1. /\ server = "order" /\ out = <<>> /\ Recv /\ up[cur] # <<>>
      /\ UNCHANGED <<cur, open, clientVars, cut, queue, down>>
  BY DEF Serve, Listening, Recv
<1>2. cur \in Clients
  BY <1>1 DEF IInv, ServerInv, Talking
<1>3. PICK order \in Orders : /\ recebuf' = Message(order)
                             /\ Order = order
                             /\ up' = [up EXCEPT ![cur] = <<>>]
  BY <1>1, <1>2, RecvOrder DEF IInv
<1>4. PICK a \in Answers(db, order) : out' = Frames(a) /\ reply' = [reply EXCEPT ![cur] = a]
  BY <1>3 DEF Serve, Answer
<1>5. /\ db' = Effect(db, order)
      /\ server' \in {"confirm", "bye", "order"}
  BY <1>3, Zenon DEF Serve
<1>6. db \in Databases
  BY DEF IInv, Typed, TypeOK
<1>7. a \in Seq(Vocabulary) /\ a # <<>> /\ db' \in Databases
  BY <1>5, <1>6, AnswersAre, EffectKeeps
<1>8. Frames(a) \in Seq(Seq(Units) \ {<<>>}) /\ Frames(a) \in Seq(Seq(Units))
  BY <1>7, FramesOf
<1>9. /\ client[cur] \in {"recv", "gone"} /\ ~Queued(cur)
      /\ client[cur] = "recv" => Waiting(cur)
  BY <1>1, <1>2, CommandComes
<1>10. recebuf' \in [1 .. MaxData -> Vocabulary] /\ recebuf' \in Seq(Vocabulary)
  BY <1>3, MessageOf
<1> USE DEF clientVars
<1>11. Typed'
  <2>1. reply' \in [Clients -> Seq(Vocabulary)] /\ up' \in [Clients -> Seq(Vocabulary)]
    BY <1>2, <1>3, <1>4, <1>7 DEF IInv, Typed, TypeOK
  <2>2. ASSUME NEW c \in Clients
        PROVE  up'[c] = <<>> \/ \E o \in Orders : up'[c] = Message(o)
    BY <1>2, <1>3 DEF IInv, Typed, TypeOK
  <2>3. server' \in {"accept", "order", "confirm", "clear", "install", "bye", "down"}
    BY <1>5
  <2> QED
    BY <1>1, <1>4, <1>7, <1>8, <1>10, <2>1, <2>2, <2>3 DEF IInv, Typed, TypeOK
<1>12. ServerInv'
  BY <1>1, <1>2, <1>5, <1>9 DEF ServerInv, Talking
<1>13. QueueInv'
  BY <1>1 DEF IInv, QueueInv
<1>14. ASSUME NEW c \in Clients PROVE ClientInv(c)'
  <2>1. CASE c # cur
    BY <1>1, <1>2, <1>3, <1>4, <2>1, Untouched DEF IInv, Typed, TypeOK, Queued
  <2>2. CASE c = cur /\ client[c] = "gone"
    BY <1>1, <1>9, <2>2 DEF ClientInv, Queued
  <2>3. CASE c = cur /\ client[c] = "recv"
    <3>1. Reading(c)'
      BY <1>1, <1>4, <1>7, <1>9, <2>3, AnswerStarts DEF Waiting, IInv, Typed, TypeOK
    <3>2. up'[c] = <<>>
      BY <1>2, <1>3, <2>3 DEF IInv, Typed, TypeOK
    <3>3. ~Resetting(c)' /\ ~Queued(c)'
      BY <1>1, <1>5, <1>9, <2>3 DEF Resetting, Queued
    <3> QED
      BY <1>1, <2>3, <3>1, <3>2, <3>3 DEF ClientInv
  <2> QED
    BY <1>9, <2>1, <2>2, <2>3
<1> QED
  BY <1>11, <1>12, <1>13, <1>14 DEF IInv

LEMMA ConfirmKeeps ==
  ASSUME WholeWrites, IInv, Confirm
  PROVE  IInv'
<1> DEFINE text == <<Prompt>>
<1>1. /\ server = "confirm" /\ out = <<>> /\ Recv /\ up[cur] # <<>>
      /\ UNCHANGED <<cur, db, open, clientVars, cut, queue, down>>
  BY DEF Confirm, Listening, Recv
<1>2. cur \in Clients
  BY <1>1 DEF IInv, ServerInv, Talking
<1>3. PICK order \in Orders : /\ recebuf' = Message(order)
                             /\ up' = [up EXCEPT ![cur] = <<>>]
  BY <1>1, <1>2, RecvOrder DEF IInv
<1>4. \/ server' = "clear" /\ UNCHANGED <<out, reply>>
      \/ server' = "order" /\ out' = Frames(text) /\ reply' = [reply EXCEPT ![cur] = text]
  BY DEF Confirm, Answer
<1>5. text \in Seq(Vocabulary) /\ text # <<>>
  BY DEF Vocabulary
<1> HIDE DEF text
<1>6. Frames(text) \in Seq(Seq(Units) \ {<<>>}) /\ Frames(text) \in Seq(Seq(Units))
  BY <1>5, FramesOf
<1>7. /\ client[cur] \in {"recv", "gone"} /\ ~Queued(cur)
      /\ client[cur] = "recv" => Waiting(cur)
  BY <1>1, <1>2, CommandComes
<1>8. recebuf' \in [1 .. MaxData -> Vocabulary] /\ recebuf' \in Seq(Vocabulary)
  BY <1>3, MessageOf
<1> USE DEF clientVars
<1>9. Typed'
  <2> DEFINE words == Seq(Vocabulary)
  <2>0. /\ up \in [Clients -> words] /\ reply \in [Clients -> words]
        /\ <<>> \in words /\ text \in words
    BY <1>5 DEF IInv, Typed, TypeOK
  <2> HIDE DEF words
  <2>1. up' \in [Clients -> words] /\ reply' \in [Clients -> words]
    BY <1>2, <1>3, <1>4, <2>0
  <2>2. ASSUME NEW c \in Clients
        PROVE  up'[c] = <<>> \/ \E o \in Orders : up'[c] = Message(o)
    BY <1>2, <1>3 DEF IInv, Typed, TypeOK
  <2>3. out' \in Seq(Seq(Units) \ {<<>>}) /\ out' \in Seq(Seq(Units))
    BY <1>4, <1>6 DEF IInv, Typed, TypeOK
  <2>4. server' \in {"accept", "order", "confirm", "clear", "install", "bye", "down"}
    BY <1>4
  <2> QED
    BY <1>1, <1>8, <2>1, <2>2, <2>3, <2>4 DEF IInv, Typed, TypeOK, words
<1>10. ServerInv'
  BY <1>1, <1>2, <1>4, <1>7 DEF ServerInv, Talking
<1>11. QueueInv'
  BY <1>1 DEF IInv, QueueInv
<1>12. ASSUME NEW c \in Clients PROVE ClientInv(c)'
  <2>1. CASE c # cur
    BY <1>1, <1>2, <1>3, <1>4, <2>1, Untouched DEF IInv, Typed, TypeOK, Queued
  <2>2. CASE c = cur /\ client[c] = "gone"
    BY <1>1, <1>7, <2>2 DEF ClientInv, Queued
  <2>3. CASE c = cur /\ client[c] = "recv"
    <3>1. up'[c] = <<>> /\ ~Queued(c)'
      BY <1>1, <1>2, <1>3, <1>7, <2>3 DEF IInv, Typed, TypeOK, Queued
    <3>2. CASE server' = "clear" /\ UNCHANGED <<out, reply>>
      <4>1. Waiting(c)'
        BY <1>1, <1>7, <2>3, <3>2 DEF Waiting
      <4> QED
        BY <1>1, <2>3, <3>1, <4>1 DEF ClientInv
    <3>3. CASE server' = "order" /\ out' = Frames(text) /\ reply' = [reply EXCEPT ![cur] = text]
      <4>1. Reading(c)'
        BY <1>1, <1>5, <1>7, <2>3, <3>3, AnswerStarts DEF Waiting, IInv, Typed, TypeOK
      <4>2. ~Resetting(c)'
        BY <3>3 DEF Resetting
      <4> QED
        BY <1>1, <2>3, <3>1, <4>1, <4>2 DEF ClientInv
    <3> QED
      BY <1>4, <3>2, <3>3
  <2> QED
    BY <1>7, <2>1, <2>2, <2>3
<1> QED
  BY <1>9, <1>10, <1>11, <1>12 DEF IInv

LEMMA WriteKeeps ==
  ASSUME IInv, Write
  PROVE  IInv'
<1>1. PICK c : c = cur
  OBVIOUS
<1>2. /\ out # <<>> /\ client[c] # "gone"
      /\ down' = [down EXCEPT ![c] = @ \o Head(out)]
      /\ out' = Tail(out) /\ cur' = c
      /\ UNCHANGED <<server, cur, recebuf, db, open, clientVars, cut, queue, up, reply>>
  BY <1>1 DEF Write
<1> USE DEF clientVars
<1>3. c \in Clients /\ client[c] # "off" /\ server \in Talking
  BY <1>1, <1>2 DEF IInv, ServerInv, Talking, Typed, TypeOK
<1>4. /\ client[c] = "recv" /\ Reading(c) /\ up[c] = <<>>
      /\ server \notin {"clear", "install"} /\ ~Queued(c)
  <2>1. /\ ClientInv(c) /\ client[c] \in {"off", "recv", "type", "gone"}
        /\ (server \in {"clear", "install"} => out = <<>>)
    BY <1>3 DEF IInv, ServerInv, Typed, TypeOK
  <2>2. client[c] = "recv" /\ ~Waiting(c)
    BY <1>1, <1>2, <1>3, <2>1 DEF ClientInv, Done, Waiting
  <2> QED
    BY <1>1, <1>2, <2>1, <2>2 DEF ClientInv
<1>5. PICK text : text = reply[c]
  OBVIOUS
<1>6. text \in Seq(Vocabulary)
  BY <1>3, <1>5 DEF IInv, Typed, TypeOK
<1> DEFINE frames == Frames(text)  N == FrameCount(text)
<1>7. /\ Framed(frames) /\ frames \in Seq(Seq(Units)) /\ Len(frames) = N /\ N \in Nat
  BY <1>6, FramesAreFramed, FramesOf, FrameCounts
<1>8. PICK j \in 0 .. N - 1, m \in 0 .. N :
        /\ j <= m
        /\ screen[c] = ShownUpTo(text, j)
        /\ InTransit(down[c], frames, j, m)
        /\ out = SubSeq(frames, m + 1, Len(frames))
  BY <1>1, <1>4, <1>5 DEF Reading
<1> HIDE DEF frames, N
<1>9. j \in Nat /\ m \in Nat /\ m <= Len(frames)
  BY <1>7, <1>8
<1>10. /\ m < Len(frames) /\ Head(out) = frames[m + 1]
       /\ Tail(out) = SubSeq(frames, m + 1 + 1, Len(frames))
  BY <1>2, <1>7, <1>8, <1>9, NextFrame
<1>11. down \in [Clients -> Seq(Units)] /\ frames[m + 1] \in Seq(Units)
  BY <1>7, <1>9, <1>10, ElementOfSeq DEF IInv, Typed, TypeOK
<1>12. down'[c] = down[c] \o frames[m + 1] /\ down[c] \o frames[m + 1] \in Seq(Units)
  BY <1>2, <1>3, <1>10, <1>11, ConcatProperties
<1>13. InTransit(down'[c], frames, j, m + 1)
  <2> DEFINE d == down[c]
  <2>1. d \in Seq(Units) /\ InTransit(d, frames, j, m)
    BY <1>3, <1>8, <1>11
  <2> HIDE DEF d
  <2>2. InTransit(d \o frames[m + 1], frames, j, m + 1)
    BY <1>7, <1>8, <1>9, <1>10, <2>1, PushFrame
  <2> QED
    BY <1>12, <2>2 DEF d
<1>14. Typed'
  <2>1. down' \in [Clients -> Seq(Units)]
    BY <1>2, <1>3, <1>10, <1>11, <1>12
  <2>2. out \in Seq(Seq(Units) \ {<<>>}) /\ out # <<>>
    BY <1>2 DEF IInv, Typed
  <2>3. Tail(out) \in Seq(Seq(Units) \ {<<>>})
    BY <2>2, HeadTailProperties
  <2>4. Tail(out) \in Seq(Seq(Units))
    BY <2>3
  <2> QED
    BY <1>2, <2>1, <2>3, <2>4 DEF IInv, Typed, TypeOK
<1>15. ServerInv' /\ QueueInv'
  BY <1>1, <1>2, <1>3, <1>4 DEF IInv, ServerInv, QueueInv, Talking
<1>16. ASSUME NEW x \in Clients PROVE ClientInv(x)'
  <2>1. CASE x # c
    BY <1>1, <1>2, <1>11, <2>1, Untouched DEF IInv, Queued
  <2>2. CASE x = c
    <3>1. m + 1 \in 0 .. N /\ j <= m + 1
      BY <1>7, <1>8, <1>9, <1>10
    <3>2. /\ client'[x] = "recv" /\ reply'[x] = text /\ screen'[x] = ShownUpTo(text, j)
          /\ InTransit(down'[x], frames, j, m + 1)
          /\ out' = SubSeq(frames, m + 1 + 1, Len(frames))
      BY <1>2, <1>4, <1>5, <1>8, <1>10, <1>13, <2>2
    <3>3. Reading(x)'
      BY <1>8, <3>1, <3>2 DEF Reading, frames, N
    <3>4. up'[x] = <<>> /\ ~Resetting(x)' /\ ~Queued(x)'
      BY <1>2, <1>4, <2>2 DEF Resetting, Queued
    <3> QED
      BY <3>2, <3>3, <3>4 DEF ClientInv
  <2> QED
    BY <2>1, <2>2
<1> QED
  BY <1>14, <1>15, <1>16 DEF IInv

LEMMA WriteToGoneKeeps ==
  ASSUME IInv, WriteToGone
  PROVE  IInv'
<1>1. CASE Die /\ UNCHANGED cut
  <2>1. cut' \in BOOLEAN
    BY <1>1 DEF IInv, Typed, TypeOK
  <2> QED
    BY <1>1, <2>1, DieKeeps
<1>2. CASE /\ out # <<>> /\ client[cur] = "gone" /\ out' = Tail(out)
           /\ UNCHANGED <<server, cur, recebuf, db, open, clientVars, cut,
                          queue, up, down, reply>>
  <2> USE <1>2 DEF clientVars
  <2>1. Typed'
    <3>1. out \in Seq(Seq(Units) \ {<<>>}) /\ out # <<>>
      BY DEF IInv, Typed
    <3>2. Tail(out) \in Seq(Seq(Units) \ {<<>>})
      BY <3>1, HeadTailProperties
    <3>3. Tail(out) \in Seq(Seq(Units))
      BY <3>2
    <3> QED
      BY <3>2, <3>3 DEF IInv, Typed, TypeOK
  <2>2. ServerInv' /\ QueueInv'
    BY DEF IInv, ServerInv, QueueInv, Talking
  <2>3. ASSUME NEW x \in Clients PROVE ClientInv(x)'
    <3>1. CASE x # cur
      BY <3>1, Untouched DEF IInv, Queued
    <3>2. CASE x = cur
      BY <3>2 DEF IInv, ClientInv, Queued
    <3> QED
      BY <3>1, <3>2
  <2> QED
    BY <2>1, <2>2, <2>3 DEF IInv
<1> QED
  BY <1>1, <1>2 DEF WriteToGone

\* A client reads one frame, prints it, and waits for the next or prompts.
LEMMA ShowReads ==
  ASSUME WholeWrites, IInv, NEW c \in Clients, Show(c)
  PROVE  /\ Reading(c) /\ up[c] = <<>> /\ ~Resetting(c) /\ ~Queued(c)
         /\ \E j \in 0 .. FrameCount(reply[c]) - 1, m \in 0 .. FrameCount(reply[c]) :
              \E rest \in Seq(Units), buf \in [1 .. MaxData -> Units] :
                /\ j < m
                /\ InTransit(rest, Frames(reply[c]), j + 1, m)
                /\ cur = c => out = SubSeq(Frames(reply[c]), m + 1, Len(Frames(reply[c])))
                /\ down' = [down EXCEPT ![c] = rest]
                /\ rbuf' = [rbuf EXCEPT ![c] = buf]
                /\ screen' = [screen EXCEPT ![c] = ShownUpTo(reply[c], j + 1)]
                /\ client' = [client EXCEPT ![c] = IF j + 1 = FrameCount(reply[c])
                                                  THEN "type" ELSE "recv"]
<1>1. /\ client[c] = "recv" /\ down[c] # <<>>
      /\ UNCHANGED <<serverVars, queue, up, reply>>
  BY DEF Show
<1> USE DEF serverVars
<1>2. Reading(c) /\ up[c] = <<>> /\ ~Resetting(c) /\ ~Queued(c)
  <2>1. ClientInv(c) /\ ~Waiting(c)
    BY <1>1 DEF IInv, Waiting
  <2> QED
    BY <1>1, <2>1 DEF ClientInv
<1>3. PICK text, d : text = reply[c] /\ d = down[c]
  OBVIOUS
<1>4. text \in Seq(Vocabulary) /\ d \in Seq(Units) /\ d # <<>>
  BY <1>1, <1>3 DEF IInv, Typed, TypeOK
<1> DEFINE frames == Frames(text)  N == FrameCount(text)
<1>5. /\ Framed(frames) /\ frames \in Seq(Seq(Units)) /\ Len(frames) = N /\ N \in Nat
      /\ MaxData \in Nat
  BY <1>4, FramesAreFramed, FramesOf, FrameCounts, SessionAssumption
<1>6. PICK j \in 0 .. N - 1, m \in 0 .. N :
        /\ j <= m
        /\ screen[c] = ShownUpTo(text, j)
        /\ InTransit(d, frames, j, m)
        /\ cur = c => out = SubSeq(frames, m + 1, Len(frames))
  BY <1>2, <1>3 DEF Reading
<1> HIDE DEF frames, N
<1>7. /\ j \in Nat /\ m \in Nat /\ m <= Len(frames) /\ j + 1 \in 1 .. Len(frames)
      /\ j + 1 \in Nat
  BY <1>5, <1>6
<1>8. /\ j < m
      /\ frames[j + 1] \in Seq(Units) /\ Len(frames[j + 1]) \in 1 .. MaxData
  <2>1. j # m
    BY <1>4, <1>5, <1>6, <1>7, StreamSize
  <2>2. \A k \in 1 .. Len(frames) : frames[k] \in Seq(Units) /\ Len(frames[k]) \in 1 .. MaxData
    BY <1>4, <1>5, <1>6, <1>7, StreamSize
  <2> QED
    BY <1>6, <1>7, <2>1, <2>2
<1>9. PICK n : n = Least(MaxData, Len(d))
  OBVIOUS
<1>10. /\ n = Len(frames[j + 1])
       /\ SubSeq(d, 1, n) = frames[j + 1]
       /\ InTransit(Rest(d, n), frames, j + 1, m)
       /\ Rest(d, n) \in Seq(Units)
  BY <1>4, <1>5, <1>6, <1>7, <1>8, <1>9, PopFrame
<1>11. PICK buf : buf = Overlay(rbuf[c], frames[j + 1])
  OBVIOUS
<1>12. /\ buf \in [1 .. MaxData -> Units]
       /\ \A i \in 1 .. Len(frames[j + 1]) : buf[i] = frames[j + 1][i]
  <2>1. rbuf[c] \in [1 .. MaxData -> Units] /\ Len(frames[j + 1]) <= MaxData
    BY <1>5, <1>8 DEF IInv, Typed
  <2> QED
    BY <1>8, <1>11, <2>1, OverlayOf
<1>13. PICK nn : nn = IF buf[1].len >= MaxData THEN buf[1].len - MaxData ELSE buf[1].len
  OBVIOUS
<1>14. /\ buf[1].len # -1
       /\ buf[1].len < MaxData <=> j + 1 = N
       /\ ShownUpTo(text, j) \o Words(SubSeq(buf, 2, nn + 1)) = ShownUpTo(text, j + 1)
  <2>1. j \in 0 .. FrameCount(text) - 1
    BY <1>6 DEF N
  <2>2. \A i \in 1 .. Len(Frames(text)[j + 1]) : buf[i] = Frames(text)[j + 1][i]
    BY <1>12 DEF frames
  <2> QED
    BY <1>4, <1>12, <1>13, <2>1, <2>2, PrintFrame DEF N
<1>15. Received(down[c]) = {n}
  BY <1>3, <1>9 DEF Received, WholeWrites
<1>16. /\ down' = [down EXCEPT ![c] = Rest(d, n)]
       /\ rbuf' = [rbuf EXCEPT ![c] = buf]
       /\ screen' = [screen EXCEPT ![c] = ShownUpTo(text, j + 1)]
       /\ client' = [client EXCEPT ![c] = IF j + 1 = N THEN "type" ELSE "recv"]
  <2> DEFINE b == Overlay(rbuf[c], SubSeq(down[c], 1, n))
             l == b[1].len
             ll == IF l >= MaxData THEN l - MaxData ELSE l
  <2>1. b = buf
    BY <1>3, <1>10, <1>11
  <2>2. /\ down' = [down EXCEPT ![c] = Rest(down[c], n)]
        /\ rbuf' = [rbuf EXCEPT ![c] = b]
        /\ IF l = -1
           THEN Become(c, "recv", "gone") /\ UNCHANGED screen
           ELSE /\ screen' = [screen EXCEPT ![c] = @ \o Words(SubSeq(b, 2, ll + 1))]
                /\ Become(c, "recv", IF l < MaxData THEN "type" ELSE "recv")
    BY <1>15 DEF Show
  <2>3. l # -1 /\ (l < MaxData <=> j + 1 = N) /\ ll = nn
    BY <1>13, <1>14, <2>1
  <2> HIDE DEF b, l, ll
  <2>4. /\ screen' = [screen EXCEPT ![c] = screen[c] \o Words(SubSeq(buf, 2, nn + 1))]
        /\ Become(c, "recv", IF l < MaxData THEN "type" ELSE "recv")
    BY <2>1, <2>2, <2>3
  <2> QED
    BY <1>3, <1>6, <1>14, <2>1, <2>2, <2>3, <2>4 DEF Become
<1> QED
  BY <1>2, <1>3, <1>6, <1>8, <1>10, <1>12, <1>16 DEF frames, N

LEMMA ShowKeeps ==
  ASSUME WholeWrites, IInv, NEW c \in Clients, Show(c)
  PROVE  IInv'
<1>1. UNCHANGED <<serverVars, queue, up, reply>>
  BY DEF Show
<1> USE DEF serverVars
<1>2. Reading(c) /\ up[c] = <<>> /\ ~Resetting(c) /\ ~Queued(c)
  BY ShowReads
<1>3. PICK text : text = reply[c]
  OBVIOUS
<1>4. text \in Seq(Vocabulary)
  BY <1>3 DEF IInv, Typed, TypeOK
<1> DEFINE frames == Frames(text)  N == FrameCount(text)
<1>5. /\ Framed(frames) /\ frames \in Seq(Seq(Units)) /\ Len(frames) = N /\ N \in Nat
      /\ MaxData \in Nat
  BY <1>4, FramesAreFramed, FramesOf, FrameCounts, SessionAssumption
<1>6. PICK j \in 0 .. N - 1, m \in 0 .. N :
        \E rest \in Seq(Units), buf \in [1 .. MaxData -> Units] :
          /\ j < m
          /\ InTransit(rest, frames, j + 1, m)
          /\ cur = c => out = SubSeq(frames, m + 1, Len(frames))
          /\ down' = [down EXCEPT ![c] = rest]
          /\ rbuf' = [rbuf EXCEPT ![c] = buf]
          /\ screen' = [screen EXCEPT ![c] = ShownUpTo(text, j + 1)]
          /\ client' = [client EXCEPT ![c] = IF j + 1 = N THEN "type" ELSE "recv"]
  BY <1>3, ShowReads
<1> HIDE DEF frames, N
<1>16. PICK rest \in Seq(Units), buf \in [1 .. MaxData -> Units] :
          /\ j < m
          /\ InTransit(rest, frames, j + 1, m)
          /\ cur = c => out = SubSeq(frames, m + 1, Len(frames))
          /\ down' = [down EXCEPT ![c] = rest]
          /\ rbuf' = [rbuf EXCEPT ![c] = buf]
          /\ screen' = [screen EXCEPT ![c] = ShownUpTo(text, j + 1)]
          /\ client' = [client EXCEPT ![c] = IF j + 1 = N THEN "type" ELSE "recv"]
  BY <1>6
<1>7. /\ j \in Nat /\ m \in Nat /\ m <= Len(frames) /\ j + 1 \in 1 .. Len(frames)
      /\ j + 1 \in Nat /\ j + 1 <= m
  BY <1>5, <1>6, <1>16
<1>17. ShownUpTo(text, j + 1) \in Seq(Vocabulary)
  <2> DEFINE a == Least((j + 1) * Payload, Len(text))
  <2>1. a \in Nat /\ a <= Len(text)
    <3>1. /\ Payload \in Nat /\ Len(text) \in Nat
          /\ (j + 1) * Payload \in Int /\ 0 * Payload <= (j + 1) * Payload /\ 0 * Payload = 0
      BY <1>4, <1>7, SessionAssumption, LenProperties, Multiples DEF Payload
    <3> QED
      BY <3>1 DEF Least
  <2> HIDE DEF a
  <2>2. SubSeq(text, 0 + 1, 0 + a) \in Seq(Vocabulary) /\ 0 + 1 = 1 /\ 0 + a = a
    BY <1>4, <2>1, Slice
  <2> QED
    BY <2>2 DEF ShownUpTo, a
<1>18. Typed'
  <2>1. /\ down' \in [Clients -> Seq(Units)] /\ screen' \in [Clients -> Seq(Vocabulary)]
        /\ client' \in [Clients -> {"off", "recv", "type", "gone"}]
    BY <1>16, <1>17 DEF IInv, Typed, TypeOK
  <2>2. rbuf' \in [Clients -> [1 .. MaxData -> Units]]
    BY <1>16 DEF IInv, Typed
  <2>3. rbuf' \in [Clients -> Seq(Units)]
    <3>1. buf \in Seq(Units)
      BY <1>5, <1>16
    <3> QED
      BY <1>16, <3>1 DEF IInv, Typed, TypeOK
  <2> QED
    BY <1>1, <2>1, <2>2, <2>3 DEF IInv, Typed, TypeOK
<1>19. client \in [Clients -> {"off", "recv", "type", "gone"}]
  BY DEF IInv, Typed, TypeOK
<1>20. client'[c] = IF j + 1 = N THEN "type" ELSE "recv"
  BY <1>16, <1>19
<1>21. ServerInv' /\ QueueInv'
  <2>1. cur \in Clients /\ client[cur] # "off" => client'[cur] # "off"
    BY <1>16, <1>19
  <2> QED
    BY <1>1, <2>1 DEF IInv, ServerInv, QueueInv, Talking
<1>22. ASSUME NEW x \in Clients PROVE ClientInv(x)'
  <2>1. CASE x # c
    BY <1>1, <1>16, <1>19, <2>1, Untouched DEF IInv, Typed, TypeOK, Queued
  <2>2. CASE x = c
    <3>1. /\ reply'[x] = text /\ up'[x] = <<>> /\ ~Resetting(x)' /\ ~Queued(x)'
          /\ screen'[x] = ShownUpTo(text, j + 1) /\ down'[x] = rest
          /\ cur' = x => cur = c /\ out' = out
      BY <1>1, <1>2, <1>3, <1>16, <2>2 DEF IInv, Typed, TypeOK, Resetting, Queued
    <3>2. CASE j + 1 = N
      <4>1. m = N /\ m = j + 1
        BY <1>5, <1>7, <3>2
      <4>2. down'[x] = <<>>
        BY <1>5, <1>7, <1>16, <3>1, <4>1, StreamSize
      <4>3. screen'[x] = reply'[x]
        BY <1>4, <3>1, <3>2, AllShown DEF N
      <4>4. cur' = x => out' = <<>>
        <5>1. SubSeq(frames, N + 1, N + 0) = <<>> /\ N + 0 = N
          <6>1. /\ SubSeq(frames, N + 1, N + 0) \in Seq(Seq(Units))
                /\ Len(SubSeq(frames, N + 1, N + 0)) = 0
            BY <1>5, Slice
          <6> QED
            BY <1>5, <6>1, EmptySeq
        <5> QED
          BY <1>5, <1>16, <3>1, <4>1, <5>1
      <4>5. client'[x] = "type"
        BY <1>20, <2>2, <3>2
      <4> QED
        BY <3>1, <4>2, <4>3, <4>4, <4>5 DEF ClientInv, Done
    <3>3. CASE j + 1 # N
      <4>1. j + 1 \in 0 .. N - 1 /\ j + 1 <= m
        BY <1>5, <1>7, <3>3
      <4>2. client'[x] = "recv"
        BY <1>20, <2>2, <3>3
      <4>3. /\ InTransit(down'[x], frames, j + 1, m)
            /\ cur' = x => out' = SubSeq(frames, m + 1, Len(frames))
        BY <1>16, <3>1
      <4>4. Reading(x)'
        BY <3>1, <4>1, <4>2, <4>3 DEF Reading, frames, N
      <4> QED
        BY <3>1, <4>2, <4>4 DEF ClientInv
    <3> QED
      BY <3>2, <3>3
  <2> QED
    BY <2>1, <2>2
<1> QED
  BY <1>18, <1>21, <1>22 DEF IInv

LEMMA GoneKeeps ==
  ASSUME IInv, NEW c \in Clients, Quit(c) \/ Kill(c) \/ Disconnected(c)
  PROVE  IInv'
<1>1. /\ client[c] # "off"
      /\ client' = [client EXCEPT ![c] = "gone"]
      /\ screen' = [screen EXCEPT ![c] = <<>>] \/ UNCHANGED screen
      /\ UNCHANGED <<serverVars, rbuf, queue, up, down, reply>>
  BY DEF Quit, Kill, Disconnected, Become
<1> USE DEF serverVars
<1>2. client \in [Clients -> {"off", "recv", "type", "gone"}] /\ screen \in [Clients -> Seq(Vocabulary)]
  BY DEF IInv, Typed, TypeOK
<1>3. Typed'
  <2> DEFINE words == Seq(Vocabulary)
  <2>0. screen \in [Clients -> words] /\ <<>> \in words
    BY <1>2
  <2> HIDE DEF words
  <2>1. client' \in [Clients -> {"off", "recv", "type", "gone"}] /\ screen' \in [Clients -> words]
    BY <1>1, <1>2, <2>0
  <2> QED
    BY <1>1, <2>1 DEF IInv, Typed, TypeOK, words
<1>4. ServerInv' /\ QueueInv'
  <2>1. cur \in Clients /\ client[cur] # "off" => client'[cur] # "off"
    BY <1>1, <1>2
  <2> QED
    BY <1>1, <2>1 DEF IInv, ServerInv, QueueInv, Talking
<1>5. ASSUME NEW x \in Clients PROVE ClientInv(x)'
  <2>1. CASE x # c
    BY <1>1, <1>2, <2>1, Untouched DEF IInv, Queued
  <2>2. CASE x = c
    <3>1. client'[x] = "gone" /\ (Queued(x)' => Queued(x))
      BY <1>1, <1>2, <2>2 DEF Queued
    <3> QED
      BY <1>1, <3>1 DEF IInv, ClientInv
  <2> QED
    BY <2>1, <2>2
<1> QED
  BY <1>3, <1>4, <1>5 DEF IInv

LEMMA TypeKeeps ==
  ASSUME IInv, NEW c \in Clients, NEW order \in Orders, Type(c, order)
  PROVE  IInv'
<1>1. /\ client[c] = "type"
      /\ client' = [client EXCEPT ![c] = "recv"]
      /\ up' = [up EXCEPT ![c] = @ \o Message(order)]
      /\ screen' = [screen EXCEPT ![c] = <<>>]
      /\ UNCHANGED <<serverVars, rbuf, queue, down, reply>>
  BY DEF Type, Become
<1> USE DEF serverVars
<1>2. /\ client \in [Clients -> {"off", "recv", "type", "gone"}]
      /\ screen \in [Clients -> Seq(Vocabulary)] /\ up \in [Clients -> Seq(Vocabulary)]
  BY DEF IInv, Typed, TypeOK
<1>3. Done(c) /\ ~Resetting(c) /\ ~Queued(c)
  BY <1>1 DEF IInv, ClientInv
<1>4. up' = [up EXCEPT ![c] = Message(order)]
  <2>1. Message(order) \in Seq(Vocabulary)
    BY MessageOf
  <2>2. up[c] \o Message(order) = Message(order)
    BY <1>3, <2>1 DEF Done
  <2> QED
    BY <1>1, <2>2
<1>5. Typed'
  <2>1. Message(order) \in Seq(Vocabulary)
    BY MessageOf
  <2>2. /\ client' \in [Clients -> {"off", "recv", "type", "gone"}]
        /\ screen' \in [Clients -> Seq(Vocabulary)] /\ up' \in [Clients -> Seq(Vocabulary)]
    BY <1>1, <1>2, <1>4, <2>1
  <2>3. ASSUME NEW x \in Clients
        PROVE  up'[x] = <<>> \/ \E o \in Orders : up'[x] = Message(o)
    BY <1>2, <1>4 DEF IInv, Typed
  <2> QED
    BY <1>1, <2>2, <2>3 DEF IInv, Typed, TypeOK
<1>6. ServerInv' /\ QueueInv'
  <2>1. cur \in Clients /\ client[cur] # "off" => client'[cur] # "off"
    BY <1>1, <1>2
  <2> QED
    BY <1>1, <2>1 DEF IInv, ServerInv, QueueInv, Talking
<1>7. ASSUME NEW x \in Clients PROVE ClientInv(x)'
  <2>1. CASE x # c
    BY <1>1, <1>2, <1>4, <2>1, Untouched DEF IInv, Queued
  <2>2. CASE x = c
    <3>1. client'[x] = "recv" /\ screen'[x] = <<>> /\ ~Queued(x)' /\ ~Resetting(x)'
      BY <1>1, <1>2, <1>3, <2>2 DEF Queued, Resetting
    <3>2. Waiting(x)'
      BY <1>1, <1>3, <2>2, <3>1 DEF Waiting, Done
    <3> QED
      BY <3>1, <3>2 DEF ClientInv
  <2> QED
    BY <2>1, <2>2
<1> QED
  BY <1>5, <1>6, <1>7 DEF IInv

LEMMA ConnectKeeps ==
  ASSUME IInv, NEW c \in Clients, Connect(c)
  PROVE  IInv'
<1>1. /\ client[c] = "off"
      /\ UNCHANGED <<serverVars, rbuf, screen, up, down, reply>>
      /\ \/ client' = [client EXCEPT ![c] = "gone"] /\ UNCHANGED queue
         \/ client' = [client EXCEPT ![c] = "recv"] /\ queue' = Append(queue, c)
              /\ server # "down"
  BY DEF Connect, Become
<1> USE DEF serverVars
<1>2. /\ client \in [Clients -> {"off", "recv", "type", "gone"}] /\ queue \in Seq(Clients)
      /\ Len(queue) \in Nat
  <2>1. queue \in Seq(Clients)
    BY DEF IInv, Typed, TypeOK
  <2> QED
    BY <2>1, LenProperties DEF IInv, Typed, TypeOK
<1>3. ~Queued(c) /\ screen[c] = <<>> /\ down[c] = <<>> /\ up[c] = <<>> /\ cur # c
  BY <1>1 DEF IInv, ClientInv, ServerInv
<1> DEFINE n == Len(queue)
<1>4. /\ Append(queue, c) \in Seq(Clients)
      /\ DOMAIN queue = 1 .. n /\ DOMAIN Append(queue, c) = 1 .. n + 1
      /\ \A i \in 1 .. n + 1 : Append(queue, c)[i] = IF i <= n THEN queue[i] ELSE c
  <2>1. /\ Append(queue, c) \in Seq(Clients) /\ Len(Append(queue, c)) = n + 1
        /\ \A i \in 1 .. n : Append(queue, c)[i] = queue[i]
        /\ Append(queue, c)[n + 1] = c
    BY <1>2, AppendProperties
  <2>2. DOMAIN queue = 1 .. n /\ DOMAIN Append(queue, c) = 1 .. n + 1
    BY <1>2, <2>1, LenProperties
  <2> QED
    BY <1>2, <2>1, <2>2
<1> HIDE DEF n
<1>5. Typed'
  <2>1. client' \in [Clients -> {"off", "recv", "type", "gone"}] /\ queue' \in Seq(Clients)
    BY <1>1, <1>2, <1>4
  <2> QED
    BY <1>1, <2>1 DEF IInv, Typed, TypeOK
<1>6. ServerInv'
  <2>1. cur \in Clients /\ client[cur] # "off" => client'[cur] # "off"
    BY <1>1, <1>2
  <2> QED
    BY <1>1, <2>1 DEF IInv, ServerInv, Talking
<1>7. QueueInv'
  <2>1. CASE UNCHANGED queue
    BY <2>1 DEF IInv, QueueInv
  <2>2. CASE queue' = Append(queue, c)
    <3>1. ASSUME NEW i \in 1 .. n + 1, NEW k \in 1 .. n + 1, i # k
          PROVE  queue'[i] # queue'[k]
      <4>1. /\ queue'[i] = IF i <= n THEN queue[i] ELSE c
            /\ queue'[k] = IF k <= n THEN queue[k] ELSE c
        BY <1>4, <2>2
      <4>2. \A h \in 1 .. n : queue[h] # c
        BY <1>3, <1>4 DEF Queued
      <4>3. CASE i <= n /\ k <= n
        BY <1>2, <1>4, <3>1, <4>1, <4>3 DEF IInv, QueueInv, n
      <4>4. CASE i <= n /\ k > n
        BY <1>2, <4>1, <4>2, <4>4 DEF n
      <4>5. CASE i > n /\ k <= n
        BY <1>2, <4>1, <4>2, <4>5 DEF n
      <4>6. CASE i > n /\ k > n
        BY <1>2, <3>1, <4>6 DEF n
      <4> QED
        BY <1>2, <4>3, <4>4, <4>5, <4>6 DEF n
    <3> QED
      BY <1>4, <2>2, <3>1 DEF QueueInv
  <2> QED
    BY <1>1, <2>1, <2>2
<1>8. ASSUME NEW x \in Clients PROVE ClientInv(x)'
  <2>1. CASE x # c
    <3>1. Queued(x)' => Queued(x)
      <4>1. CASE UNCHANGED queue
        BY <4>1 DEF Queued
      <4>2. CASE queue' = Append(queue, c)
        BY <1>2, <1>4, <2>1, <4>2 DEF Queued, n
      <4> QED
        BY <1>1, <4>1, <4>2
    <3> QED
      BY <1>1, <1>2, <2>1, <3>1, Untouched DEF IInv
  <2>2. CASE x = c /\ client' = [client EXCEPT ![c] = "gone"] /\ UNCHANGED queue
    <3>1. client'[x] = "gone" /\ ~Queued(x)'
      BY <1>2, <1>3, <2>2 DEF Queued
    <3> QED
      BY <3>1 DEF ClientInv
  <2>3. CASE x = c /\ client' = [client EXCEPT ![c] = "recv"]
    <3>1. /\ client'[x] = "recv" /\ screen'[x] = <<>> /\ down'[x] = <<>> /\ up'[x] = <<>>
          /\ cur' # x
      BY <1>1, <1>2, <1>3, <2>3
    <3>2. Waiting(x)' /\ ~Resetting(x)'
      BY <3>1 DEF Waiting, Resetting
    <3> QED
      BY <3>1, <3>2 DEF ClientInv
  <2> QED
    BY <1>1, <2>1, <2>2, <2>3
<1> QED
  BY <1>5, <1>6, <1>7, <1>8 DEF IInv

LEMMA InitHolds == Init => IInv
<1> SUFFICES ASSUME Init PROVE IInv
  OBVIOUS
<1> USE DEF Init
<1>1. MaxData \in Nat /\ Zeros \in Vocabulary /\ "junk" \in Vocabulary
  BY SessionAssumption DEF Vocabulary
<1>2. Typed
  <2>1. recebuf \in [1 .. MaxData -> Vocabulary] /\ recebuf \in Seq(Vocabulary)
    BY <1>1 DEF Uninitialised
  <2>2. Word(Zeros) \in Units
    BY <1>1 DEF Word, Units
  <2>3. [i \in 1 .. MaxData |-> Word(Zeros)] \in Seq(Units)
    BY <1>1, <2>2
  <2>4. rbuf \in [Clients -> [1 .. MaxData -> Units]] /\ rbuf \in [Clients -> Seq(Units)]
    BY <2>2, <2>3
  <2>5. db \in Databases
    <3>1. Fresh \in [{} -> BOOLEAN]
      BY DEF Fresh
    <3> QED
      BY <3>1 DEF Databases, Installed
  <2>6. out \in Seq(Seq(Units)) /\ out \in Seq(Seq(Units) \ {<<>>}) /\ queue \in Seq(Clients)
    OBVIOUS
  <2>7. \A S : [c \in Clients |-> <<>>] \in [Clients -> Seq(S)]
    OBVIOUS
  <2>8. /\ server \in {"accept", "order", "confirm", "clear", "install", "bye", "down"}
        /\ cur \in Clients \cup {Nobody} /\ open \in SUBSET Clients /\ cut \in BOOLEAN
        /\ client \in [Clients -> {"off", "recv", "type", "gone"}]
        /\ up \in [Clients -> Seq(Vocabulary)] /\ down \in [Clients -> Seq(Units)]
        /\ screen \in [Clients -> Seq(Vocabulary)] /\ reply \in [Clients -> Seq(Vocabulary)]
        /\ \A c \in Clients : up[c] = <<>>
    BY <2>7
  <2> QED
    BY ONLY <2>1, <2>4, <2>5, <2>6, <2>8 DEF Typed, TypeOK
<1>3. ServerInv /\ QueueInv
  BY SessionAssumption DEF ServerInv, QueueInv, Talking
<1>4. ASSUME NEW c \in Clients PROVE ClientInv(c)
  BY DEF ClientInv, Queued
<1> QED
  BY <1>2, <1>3, <1>4 DEF IInv

LEMMA StutterKeeps ==
  ASSUME IInv, UNCHANGED vars
  PROVE  IInv'
<1> USE DEF vars, serverVars, clientVars
<1>1. Typed'
  BY DEF IInv, Typed, TypeOK
<1>2. ServerInv' /\ QueueInv'
  BY DEF IInv, ServerInv, QueueInv
<1>3. ASSUME NEW c \in Clients PROVE ClientInv(c)'
  BY Untouched DEF IInv, Queued
<1> QED
  BY <1>1, <1>2, <1>3 DEF IInv

LEMMA StepKeeps ==
  ASSUME WholeWrites, IInv, [Next \/ Crash]_vars
  PROVE  IInv'
<1>1. CASE ServerStep
  BY <1>1, AcceptKeeps, WriteKeeps, WriteToGoneKeeps, ServeKeeps, LeaveKeeps,
     ConfirmKeeps, ClearKeeps, InstallKeeps DEF ServerStep
<1>2. CASE Restart
  BY <1>2, RestartKeeps
<1>3. ASSUME NEW c \in Clients,
             \/ ClientStep(c) \/ Connect(c) \/ Quit(c) \/ Kill(c)
             \/ \E order \in Orders : Type(c, order)
      PROVE  IInv'
  BY <1>3, ShowKeeps, GoneKeeps, ConnectKeeps, TypeKeeps DEF ClientStep
<1>4. CASE Crash
  <2>1. Die /\ cut' \in BOOLEAN
    BY <1>4 DEF Crash, IInv, Typed, TypeOK
  <2> QED
    BY <2>1, DieKeeps
<1>5. CASE UNCHANGED vars
  BY <1>5, StutterKeeps
<1> QED
  BY <1>1, <1>2, <1>3, <1>4, <1>5 DEF Next

LEMMA Invariance ==
  ASSUME WholeWrites
  PROVE  CrashSpec => []IInv
<1>1. IInv /\ [Next \/ Crash]_vars => IInv'
  BY StepKeeps
<1> QED
  BY <1>1, InitHolds, PTL DEF CrashSpec

-----------------------------------------------------------------------------
(***************************************************************************)
(* The results.                                                            *)
(***************************************************************************)
\* Every variable of the server and of its clients keeps its type, however
\* clients come and go and wherever the server is killed: a receive buffer
\* never runs over and every byte that is printed came from an answer.
THEOREM TypeCorrect ==
  ASSUME WholeWrites
  PROVE  CrashSpec => []TypeOK
<1>1. IInv => TypeOK
  BY DEF IInv, Typed
<1> QED
  BY <1>1, Invariance, PTL

\* send_file and the receive loop of client.cpp: a client that prompts its
\* user has printed the answer of the server, all of it and nothing else,
\* for answers of any length.
THEOREM AnswersArriveWhole ==
  ASSUME WholeWrites
  PROVE  CrashSpec => []AnswerWhole
<1>1. IInv => AnswerWhole
  BY DEF IInv, ClientInv, Done, AnswerWhole
<1> QED
  BY <1>1, Invariance, PTL

\* The recv of the server's command loop takes one command and all of it:
\* what it leaves in the stream is nothing.
THEOREM OrdersAreTakenWhole ==
  ASSUME WholeWrites
  PROVE  CrashSpec => OrderIsWhole
<1>1. ASSUME IInv, [Next \/ Crash]_vars, server = "order", recebuf' # recebuf
      PROVE  up'[cur] = <<>>
  <2>1. Serve
    BY <1>1 DEF Next, ServerStep, ClientStep, Crash, Die, Accept, Write,
       WriteToGone, SignOff, Confirm, Clear, Install, Hangup, Restart, Show,
       Disconnected, Connect, Quit, Kill, Type, Listening, vars, serverVars
  <2>2. cur \in Clients /\ Recv
    BY <1>1, <2>1 DEF IInv, ServerInv, Talking, Serve
  <2>3. up' = [up EXCEPT ![cur] = <<>>]
    BY <1>1, <2>2, RecvOrder DEF IInv
  <2> QED
    BY <1>1, <2>2, <2>3 DEF IInv, Typed, TypeOK
<1>2. IInv /\ [Next \/ Crash]_vars =>
        [server = "order" /\ recebuf' # recebuf => up'[cur] = <<>>]_vars
  BY <1>1
<1> QED
  BY <1>2, Invariance, PTL DEF CrashSpec, OrderIsWhole

\* clear_all_nodes and the install after it: no disconnect, at whatever step
\* and even one that ends the server with SIGPIPE, leaves the database without
\* its root maps; only a kill between the two does.
THEOREM DisconnectsAreHarmless ==
  ASSUME WholeWrites
  PROVE  CrashSpec => []DisconnectIsHarmless
<1>1. Init => DisconnectIsHarmless
  <2>1. Fresh \in [{} -> BOOLEAN]
    BY DEF Fresh
  <2>2. Fresh # Broken
    BY <2>1, CommandsAssumption DEF Installed
  <2> QED
    BY <2>2 DEF Init, DisconnectIsHarmless
<1>2. ASSUME IInv, DisconnectIsHarmless, [Next \/ Crash]_vars
      PROVE  DisconnectIsHarmless'
  <2> USE <1>2 DEF DisconnectIsHarmless
  <2>1. CASE Serve
    <3>1. /\ server = "order" /\ cur \in Clients /\ Recv /\ cut' = cut
          /\ db' = Effect(db, Order)
      BY <2>1 DEF IInv, ServerInv, Talking, Serve, Listening
    <3>2. PICK order \in Orders : Order = order
      BY <3>1, RecvOrder DEF IInv
    <3>3. db' = Broken => db = Broken
      BY <3>1, <3>2, EffectKeeps DEF IInv, Typed, TypeOK
    <3> QED
      BY <3>1, <3>3
  <2>2. CASE Clear
    BY <2>2 DEF Clear
  <2>3. CASE Install
    <3>1. Fresh \in [{} -> BOOLEAN]
      BY DEF Fresh
    <3>2. Fresh # Broken
      BY <3>1, CommandsAssumption DEF Installed
    <3> QED
      BY <2>3, <3>2 DEF Install
  <2>4. CASE WriteToGone
    <3>1. server # "install"
      BY <2>4 DEF WriteToGone, IInv, ServerInv
    <3> QED
      BY <2>4, <3>1 DEF WriteToGone, Die
  <2>5. CASE Crash
    BY <2>5 DEF Crash, Die
  <2>6. CASE Accept \/ Write \/ SignOff \/ Confirm \/ Hangup \/ Restart
    <3>1. server # "install"
      BY <2>6 DEF Accept, Write, SignOff, Confirm, Hangup, Restart, Listening,
         IInv, ServerInv
    <3> QED
      BY <2>6, <3>1 DEF Accept, Write, SignOff, Confirm, Hangup, Restart
  <2>7. ASSUME NEW c \in Clients,
               \/ ClientStep(c) \/ Connect(c) \/ Quit(c) \/ Kill(c)
               \/ \E order \in Orders : Type(c, order)
        PROVE  DisconnectIsHarmless'
    BY <2>7 DEF ClientStep, Show, Disconnected, Connect, Quit, Kill, Type, serverVars
  <2>8. CASE UNCHANGED vars
    BY <2>8 DEF vars, serverVars
  <2> QED
    BY <2>1, <2>2, <2>3, <2>4, <2>5, <2>6, <2>7, <2>8 DEF Next, ServerStep
<1>3. IInv /\ DisconnectIsHarmless /\ [Next \/ Crash]_vars => DisconnectIsHarmless'
  BY <1>2
<1> QED
  BY <1>1, <1>3, Invariance, PTL DEF CrashSpec

\* What keeps HeldConnections: a server that has said good bye to its client
\* has answered it with that, and one that accepts talks to nobody.
HeldInv ==
  /\ queue \in Seq(Clients) /\ open \in SUBSET Clients /\ DOMAIN reply = Clients
  /\ cur \in Clients <=> server \in Talking
  /\ server \in {"accept", "down"} => cur = Nobody
  /\ server = "bye" => reply[cur] = GoodBye
  /\ HeldConnections

LEMMA HeldAlways == CrashSpec => []HeldInv
<1>1. Init => HeldInv
  BY SessionAssumption DEF Init, HeldInv, HeldConnections, Talking
<1>2. ASSUME HeldInv, [Next \/ Crash]_vars PROVE HeldInv'
  <2> USE <1>2 DEF HeldInv, HeldConnections, Talking
  <2>1. CASE Accept
    <3>1. PICK c : c = Head(queue)
      OBVIOUS
    <3>2. c \in Clients /\ Tail(queue) \in Seq(Clients)
      BY <2>1, <3>1, HeadTailProperties DEF Accept
    <3>3. /\ cur = Nobody /\ cur' = c /\ queue' = Tail(queue) /\ open' = open \cup {c}
          /\ server' = "order"
          /\ DOMAIN reply' = Clients /\ \A x \in Clients \ {c} : reply'[x] = reply[x]
      BY <2>1, <3>1 DEF Accept, Answer
    <3> QED
      BY <3>2, <3>3, SessionAssumption
  <2>2. CASE Serve
    <3>1. /\ server = "order" /\ cur \in Clients /\ UNCHANGED <<cur, open, queue>>
      BY <2>2 DEF Serve, Listening
    <3>2. server' = CASE Order = Reset -> "confirm"
                      [] Order[1] = "exit" -> "bye"
                      [] OTHER -> "order"
      BY <2>2 DEF Serve
    <3>3. Reset[1] = "reset"
      BY DEF Reset, Command
    <3>4. /\ server' \in {"confirm", "bye", "order"}
          /\ server' = "bye" => Order # Reset /\ Order[1] = "exit"
      <4>1. CASE Order = Reset
        BY <3>2, <3>3, <4>1
      <4>2. CASE Order # Reset /\ Order[1] = "exit"
        BY <3>2, <4>2
      <4>3. CASE Order # Reset /\ Order[1] # "exit"
        BY <3>2, <4>3
      <4> QED
        BY <4>1, <4>2, <4>3
    <3>5. PICK a \in Answers(db, Order) : reply' = [reply EXCEPT ![cur] = a]
      BY <2>2 DEF Serve, Answer
    <3>6. server' = "bye" => a = GoodBye
      BY <3>4, <3>5, <3>3 DEF Answers
    <3>7. /\ DOMAIN reply' = Clients /\ reply'[cur] = a
          /\ \A x \in Clients \ {cur} : reply'[x] = reply[x]
      BY <3>1, <3>5
    <3> QED
      BY <3>1, <3>4, <3>6, <3>7
  <2>3. CASE Confirm
    <3>1. /\ server = "confirm" /\ cur \in Clients /\ UNCHANGED <<cur, open, queue>>
          /\ server' \in {"clear", "order"}
          /\ DOMAIN reply' = Clients /\ \A x \in Clients \ {cur} : reply'[x] = reply[x]
      BY <2>3 DEF Confirm, Listening, Answer
    <3> QED
      BY <3>1
  <2>4. CASE Install
    <3>1. /\ server = "install" /\ cur \in Clients /\ UNCHANGED <<cur, open, queue>>
          /\ server' = "order"
          /\ DOMAIN reply' = Clients /\ \A x \in Clients \ {cur} : reply'[x] = reply[x]
      BY <2>4 DEF Install, Answer
    <3> QED
      BY <3>1
  <2>5. CASE SignOff
    <3>1. /\ server = "bye" /\ server' = "accept" /\ cur' = Nobody
          /\ UNCHANGED <<open, queue, reply>>
      BY <2>5 DEF SignOff, Listening, Leave
    <3> QED
      BY <3>1, SessionAssumption
  <2>6. CASE Hangup
    <3>1. /\ server' = "accept" /\ cur' = Nobody /\ open' = open \ {cur}
          /\ UNCHANGED <<queue, reply>>
      BY <2>6 DEF Hangup, Leave
    <3> QED
      BY <3>1, SessionAssumption
  <2>7. CASE Die
    <3>1. /\ server' = "down" /\ cur' = Nobody /\ open' = {} /\ queue' = <<>>
          /\ UNCHANGED reply
      BY <2>7 DEF Die
    <3> QED
      BY <3>1, SessionAssumption
  <2>8. CASE UNCHANGED <<server, cur, open, queue, reply>>
    BY <2>8
  <2>9. CASE Clear
    BY <2>9 DEF Clear
  <2>10. CASE Restart
    BY <2>10 DEF Restart
  <2>11. ASSUME NEW c \in Clients, Connect(c) PROVE HeldInv'
    <3>1. queue' \in Seq(Clients) /\ UNCHANGED <<server, cur, open, reply>>
      BY <2>11, AppendProperties DEF Connect, serverVars
    <3> QED
      BY <3>1
  <2>12. CASE Write \/ WriteToGone
    BY <2>7, <2>8, <2>12 DEF Write, WriteToGone
  <2>13. ASSUME NEW c \in Clients,
                \/ ClientStep(c) \/ Quit(c) \/ Kill(c)
                \/ \E order \in Orders : Type(c, order)
         PROVE  HeldInv'
    BY <2>8, <2>13 DEF ClientStep, Show, Disconnected, Quit, Kill, Type, serverVars
  <2>14. CASE UNCHANGED vars
    BY <2>8, <2>14 DEF vars, serverVars
  <2> QED
    BY <2>1, <2>2, <2>3, <2>4, <2>5, <2>6, <2>7, <2>9, <2>10, <2>11, <2>12, <2>13, <2>14
    DEF Next, ServerStep, Crash
<1>3. HeldInv /\ [Next \/ Crash]_vars => HeldInv'
  BY <1>2
<1> QED
  BY <1>1, <1>3, PTL DEF CrashSpec

\* connectfd of the server: the only descriptors that stay open behind the
\* current connection are those of clients that left with exit, whatever
\* part of a command a recv delivers.
THEOREM OnlyExitsStayOpen == CrashSpec => []HeldConnections
<1>1. HeldInv => HeldConnections
  BY DEF HeldInv
<1> QED
  BY <1>1, HeldAlways, PTL

-----------------------------------------------------------------------------
(***************************************************************************)
(* A session is a dialogue.  What a person at a client sees changes with   *)
(* the steps that take an order from the stream, type one, finish an       *)
(* answer, or end a connection; the frames in between are stutters.        *)
(***************************************************************************)
\* Something is on its way to a client.
Owed(c) == down[c] # <<>> \/ (cur = c /\ out # <<>>)

\* What the mapping needs besides IInv.  No client whose connection is open
\* waits for nothing; a connection begins without an answer; an order that
\* was confirmed has left the stream.
Awaits(c) ==
  /\ client[c] = "off" => c \notin open
  /\ client[c] = "off" \/ Queued(c) => reply[c] = <<>>
  /\ Resetting(c) => up[c] = <<>>
  /\ c \in open /\ client[c] = "recv" => up[c] # <<>> \/ Resetting(c) \/ Owed(c)

Awaited ==
  /\ cur \in Clients => cur \in open /\ reply[cur] # <<>>
  /\ \A c \in Clients : Awaits(c)

TalkInv == IInv /\ HeldInv /\ Awaited

\* A step that x does not notice, and one that only c does.
Still(x) == PhaseOf(x)' = PhaseOf(x) /\ SaidBy(x)' = SaidBy(x) /\ HeardBy(x)' = HeardBy(x)
OnlyFor(c) == \A x \in Clients \ {c} : Still(x)

LEMMA SameCommands ==
  /\ Talk!Prompt = Prompt /\ Talk!Reset = Reset /\ Talk!Yes = Yes /\ Talk!Fresh = Fresh
  /\ Talk!Orders = Orders
  /\ \A d, order : Talk!Effect(d, order) = Effect(d, order)
  /\ \A d, order : Talk!Answers(d, order) = Answers(d, order)
<1>1. /\ Talk!Prompt = Prompt /\ Talk!Reset = Reset /\ Talk!Yes = Yes /\ Talk!Fresh = Fresh
      /\ Talk!Question = Question /\ Talk!GoodBye = GoodBye /\ Talk!Zeros = Zeros
      /\ Talk!Named = Named
  BY DEF Talk!Prompt, Prompt, Talk!Reset, Reset, Talk!Yes, Yes, Talk!Fresh, Fresh,
     Talk!Command, Command, Talk!Zeros, Zeros, Talk!Question, Question,
     Talk!GoodBye, GoodBye, Talk!Named, Named
<1>2. Talk!Orders = Orders
  BY DEF Talk!Orders, Orders, Talk!Named, Named, Talk!Zeros, Zeros, Talk!Command, Command
<1>3. ASSUME NEW d, NEW order PROVE Talk!Effect(d, order) = Effect(d, order)
  BY DEF Talk!Effect, Effect, Talk!Created, Created, Talk!Without, Without,
     Talk!Added, Added, Talk!Deleted, Deleted
<1>4. ASSUME NEW d, NEW order PROVE Talk!Lines(d, order) = Lines(d, order)
  BY DEF Talk!Lines, Lines, Talk!Named, Named, Talk!Listed, Listed,
     Talk!NotExist, NotExist, Talk!Sized, Sized, Talk!Got, Got, Talk!SetToSeq, SetToSeq,
     Talk!IsInjective, IsInjective, Talk!Cardinality, Cardinality
<1>5. ASSUME NEW d, NEW order PROVE Talk!Answers(d, order) = Answers(d, order)
  BY <1>1, <1>4 DEF Talk!Answers, Answers
<1> QED
  BY <1>1, <1>2, <1>3, <1>5

(***************************************************************************)
(* The steps of Dialogue in those terms.                                   *)
(***************************************************************************)
LEMMA Silent ==
  ASSUME \A x \in Clients : Still(x), db' = db, AskedNow' = AskedNow
  PROVE  Talk!vars' = Talk!vars
<1>1. [x \in Clients |-> PhaseOf(x)]' = [x \in Clients |-> PhaseOf(x)]
  BY DEF Still
<1>2. [x \in Clients |-> SaidBy(x)]' = [x \in Clients |-> SaidBy(x)]
  BY DEF Still
<1>3. [x \in Clients |-> HeardBy(x)]' = [x \in Clients |-> HeardBy(x)]
  BY DEF Still
<1> QED
  BY <1>1, <1>2, <1>3 DEF Talk!vars, SaidBy, HeardBy, AskedNow

LEMMA Greets ==
  ASSUME NEW c \in Clients, OnlyFor(c), db' = db, AskedNow' = AskedNow,
         PhaseOf(c) = "away", PhaseOf(c)' = "answered",
         SaidBy(c)' = SaidBy(c), HeardBy(c)' = <<Prompt>>
  PROVE  Talk!Greet(c)
  BY SameCommands DEF OnlyFor, Still, Talk!Greet, Talk!Goto, Talk!Tell, SaidBy, HeardBy, AskedNow

LEMMA AsksFor ==
  ASSUME NEW c \in Clients, NEW order \in Orders, OnlyFor(c), db' = db, AskedNow' = AskedNow,
         PhaseOf(c) = "ready", PhaseOf(c)' = "asking",
         SaidBy(c)' = order, HeardBy(c)' = HeardBy(c)
  PROVE  Talk!Ask(c, order)
  BY DEF OnlyFor, Still, Talk!Ask, Talk!Goto, SaidBy, HeardBy, AskedNow

LEMMA Does ==
  ASSUME NEW c \in Clients, OnlyFor(c), SaidBy(c) # <<>>, SaidBy(c)' = <<>>,
         NEW a \in IF AskedNow = c THEN {<<Prompt>>} ELSE Answers(db, SaidBy(c)),
         \/ PhaseOf(c) = "left" /\ PhaseOf(c)' = "left"
         \/ PhaseOf(c) = "asking" /\ PhaseOf(c)' = "answered" /\ HeardBy(c)' = a,
         IF AskedNow = c
         THEN AskedNow' = Nobody /\ db' = IF SaidBy(c) = Yes THEN Fresh ELSE db
         ELSE /\ AskedNow' = IF SaidBy(c) = Reset THEN c ELSE Nobody
              /\ db' = Effect(db, SaidBy(c))
  PROVE  Talk!Do(c)
  BY SameCommands DEF OnlyFor, Still, Talk!Do, Talk!Goto, Talk!Tell, Talk!Silence, SaidBy, HeardBy, AskedNow

LEMMA ReadsAll ==
  ASSUME NEW c \in Clients, OnlyFor(c), db' = db, AskedNow' = AskedNow,
         PhaseOf(c) = "answered", PhaseOf(c)' = "ready",
         SaidBy(c)' = SaidBy(c), HeardBy(c)' = HeardBy(c)
  PROVE  Talk!Read(c)
  BY DEF OnlyFor, Still, Talk!Read, Talk!Goto, SaidBy, HeardBy, AskedNow

LEMMA Leaves ==
  ASSUME NEW c \in Clients, OnlyFor(c), db' = db, AskedNow' \in {AskedNow, Nobody},
         PhaseOf(c) # "left", PhaseOf(c)' = "left", SaidBy(c)' \in {SaidBy(c), <<>>}
  PROVE  Talk!Leave(c)
  BY DEF OnlyFor, Still, Talk!Leave, Talk!Tell, Talk!Silence, SaidBy, HeardBy, AskedNow

LEMMA Withdraws ==
  ASSUME NEW c \in Clients, OnlyFor(c), db' = db, AskedNow # Nobody, AskedNow' = Nobody,
         PhaseOf(c)' = PhaseOf(c), HeardBy(c)' = HeardBy(c),
         SaidBy(c)' = SaidBy(c) \/ (PhaseOf(c) = "left" /\ SaidBy(c)' = <<>>)
  PROVE  Talk!Withdraw
<1>1. /\ [x \in Clients |-> PhaseOf(x)]' = [x \in Clients |-> PhaseOf(x)]
      /\ [x \in Clients |-> HeardBy(x)]' = [x \in Clients |-> HeardBy(x)]
  BY DEF OnlyFor, Still
<1>2. CASE SaidBy(c)' = SaidBy(c)
  <2>1. [x \in Clients |-> SaidBy(x)]' = [x \in Clients |-> SaidBy(x)]
    BY <1>2 DEF OnlyFor, Still
  <2> QED
    BY <1>1, <2>1 DEF Talk!Withdraw, SaidBy, HeardBy, AskedNow
<1>3. CASE PhaseOf(c) = "left" /\ SaidBy(c)' = <<>>
  <2>1. [x \in Clients |-> SaidBy(x)]' = [[x \in Clients |-> SaidBy(x)] EXCEPT ![c] = <<>>]
    BY <1>3 DEF OnlyFor, Still
  <2>2. c \in {d \in Clients : [x \in Clients |-> PhaseOf(x)][d] = "left"}
    BY <1>3
  <2> QED
    BY <1>1, <2>1, <2>2 DEF Talk!Withdraw, Talk!Silence, SaidBy, HeardBy, AskedNow
<1> QED
  BY <1>2, <1>3

LEMMA Wipes ==
  ASSUME NEW c \in Clients, \A x \in Clients : Still(x), db' = Broken, AskedNow' = AskedNow,
         AskedNow = c, SaidBy(c) = Yes
  PROVE  Talk!Wipe(c)
  BY SameCommands DEF Still, Talk!Wipe, SaidBy, HeardBy, AskedNow

(***************************************************************************)
(* Where a client is.                                                      *)
(***************************************************************************)
LEMMA SameFor ==
  ASSUME NEW x \in Clients, client'[x] = client[x], up'[x] = up[x], reply'[x] = reply[x],
         Resetting(x)' <=> Resetting(x),
         client[x] = "recv" => (CutShort(x)' <=> CutShort(x)),
         TypeOK
  PROVE  Still(x)
<1>1. client[x] \in {"off", "recv", "type", "gone"}
  BY DEF TypeOK
<1>2. PhaseOf(x)' = PhaseOf(x)
  BY <1>1 DEF PhaseOf
<1> QED
  BY <1>2 DEF Still, SaidBy, HeardBy

\* A step that leaves connections and streams of x alone.
LEMMA Elsewhere ==
  ASSUME NEW x \in Clients, client'[x] = client[x], up'[x] = up[x], reply'[x] = reply[x],
         down'[x] = down[x], Resetting(x)' <=> Resetting(x),
         Connected(x)' <=> Connected(x), TypeOK
  PROVE  Still(x)
<1>1. CutShort(x)' <=> CutShort(x)
  BY DEF CutShort
<1> QED
  BY <1>1, SameFor

LEMMA PhaseIs ==
  ASSUME NEW c \in Clients, TypeOK
  PROVE  /\ client[c] = "off" => PhaseOf(c) = "away"
         /\ client[c] = "type" => PhaseOf(c) = "ready"
         /\ client[c] = "gone" => PhaseOf(c) = "left"
         /\ client[c] = "recv" =>
              /\ CutShort(c) => PhaseOf(c) = "left"
              /\ ~CutShort(c) /\ (up[c] # <<>> \/ Resetting(c)) => PhaseOf(c) = "asking"
              /\ ~CutShort(c) /\ up[c] = <<>> /\ ~Resetting(c) =>
                   /\ reply[c] = <<>> => PhaseOf(c) = "away"
                   /\ reply[c] # <<>> => PhaseOf(c) = "answered"
  BY DEF PhaseOf

LEMMA PhaseWillBe ==
  ASSUME NEW c \in Clients, TypeOK'
  PROVE  /\ client'[c] = "off" => PhaseOf(c)' = "away"
         /\ client'[c] = "type" => PhaseOf(c)' = "ready"
         /\ client'[c] = "gone" => PhaseOf(c)' = "left"
         /\ client'[c] = "recv" =>
              /\ CutShort(c)' => PhaseOf(c)' = "left"
              /\ ~CutShort(c)' /\ (up'[c] # <<>> \/ Resetting(c)') => PhaseOf(c)' = "asking"
              /\ ~CutShort(c)' /\ up'[c] = <<>> /\ ~Resetting(c)' =>
                   /\ reply'[c] = <<>> => PhaseOf(c)' = "away"
                   /\ reply'[c] # <<>> => PhaseOf(c)' = "answered"
  BY DEF PhaseOf

\* What an order in the stream says.
LEMMA OrderSaid ==
  ASSUME NEW order \in Orders
  PROVE  Message(order) # <<>> /\ SubSeq(Message(order), 1, 3) = order /\ order # <<>>
<1>1. order = <<order[1], order[2], order[3]>>
  BY OrderShape
<1> DEFINE a == order[1]  b == order[2]  d == order[3]
<1>2. <<a, b, d>> # <<>>
  OBVIOUS
<1> QED
  BY <1>1, <1>2, MessageOf DEF a, b, d

\* Most steps ask no question and withdraw none.
LEMMA NoQuestion ==
  ASSUME IInv
  PROVE  /\ AskedNow # Nobody <=> server \in {"confirm", "clear", "install"}
         /\ AskedNow # Nobody => AskedNow = cur /\ cur \in Clients
         /\ \A c \in Clients : Resetting(c) => AskedNow = c
  BY SessionAssumption DEF IInv, ServerInv, Talking, AskedNow, Resetting

(***************************************************************************)
(* The steps of the server.                                                *)
(***************************************************************************)
Dialogues == Talk!Next \/ Talk!vars' = Talk!vars

\* The steps of Dialogue that concern one client.
LEMMA OfOne ==
  ASSUME NEW c \in Clients,
         \/ Talk!Greet(c) \/ Talk!Do(c) \/ Talk!Read(c) \/ Talk!Leave(c) \/ Talk!Wipe(c)
         \/ Talk!Withdraw
  PROVE  Dialogues
  BY DEF Dialogues, Talk!Next

LEMMA DieTalks ==
  ASSUME TalkInv, IInv', Die
  PROVE  Dialogues
<1>1. /\ server' = "down" /\ cur' = Nobody /\ open' = {} /\ queue' = <<>>
      /\ UNCHANGED <<db, client, screen, rbuf, up, down, reply>>
  BY DEF Die, clientVars
<1>2. IInv /\ TypeOK /\ TypeOK' /\ Nobody \notin Clients
  BY SessionAssumption DEF TalkInv, IInv, Typed
<1>3. AskedNow' = Nobody /\ \A x \in Clients : ~Resetting(x)' /\ ~Connected(x)'
  BY <1>1, <1>2 DEF AskedNow, Resetting, Connected
<1>4. ASSUME NEW x \in Clients, x # cur PROVE Still(x)
  <2>1. ~Resetting(x)
    BY <1>4 DEF Resetting
  <2>2. ASSUME client[x] = "recv" PROVE CutShort(x)' <=> CutShort(x)
    <3>1. Connected(x) /\ reply[x] # <<>> => up[x] # <<>> \/ down[x] # <<>>
      BY <1>4, <2>1, <2>2 DEF TalkInv, Awaited, Awaits, Owed, Connected, Queued
    <3> QED
      BY <1>1, <1>3, <3>1 DEF CutShort
  <2> QED
    BY <1>1, <1>2, <1>3, <2>1, <2>2, SameFor
<1>5. CASE cur \notin Clients
  <2>1. AskedNow = Nobody
    BY <1>2, <1>5, NoQuestion
  <2> QED
    BY <1>1, <1>3, <1>4, <1>5, <2>1, Silent DEF Dialogues
<1>6. CASE cur \in Clients
  <2>1. PICK c \in Clients : c = cur
    BY <1>6
  <2>2. OnlyFor(c)
    BY <1>4, <2>1 DEF OnlyFor
  <2>3. /\ c \in open /\ reply[c] # <<>> /\ Awaits(c) /\ ClientInv(c) /\ ~CutShort(c)
        /\ client[c] \in {"recv", "type", "gone"}
    BY <1>2, <2>1 DEF TalkInv, Awaited, IInv, ServerInv, CutShort, Connected, TypeOK
  <2>4. /\ client[c] = "type" => ~Resetting(c)
        /\ client[c] = "recv" /\ Resetting(c) => CutShort(c)'
    BY <1>1, <1>3, <2>3 DEF ClientInv, Waiting, CutShort
  <2>5. PhaseOf(c)' = PhaseOf(c) \/ PhaseOf(c)' = "left"
    <3>1. CASE client[c] \in {"type", "gone"}
      BY <1>1, <1>2, <3>1, PhaseIs, PhaseWillBe
    <3>2. CASE client[c] = "recv" /\ CutShort(c)'
      BY <1>1, <1>2, <3>2, PhaseWillBe
    <3>3. CASE client[c] = "recv" /\ ~CutShort(c)'
      BY <1>1, <1>2, <1>3, <2>3, <2>4, <3>3, PhaseIs, PhaseWillBe
    <3> QED
      BY <2>3, <3>1, <3>2, <3>3
  <2>6. SaidBy(c)' = SaidBy(c) \/ (SaidBy(c)' = <<>> /\ Resetting(c))
    BY <1>1, <1>3 DEF SaidBy
  <2>7. CASE PhaseOf(c)' # PhaseOf(c)
    BY <1>1, <1>3, <2>2, <2>5, <2>6, <2>7, Leaves, OfOne
  <2>8. CASE PhaseOf(c)' = PhaseOf(c)
    <3>1. HeardBy(c)' = HeardBy(c)
      BY <1>1, <2>8 DEF HeardBy
    <3>2. Resetting(c) => PhaseOf(c) = "left"
      <4>1. client[c] = "recv" /\ Resetting(c) => PhaseOf(c)' = "left"
        BY <1>1, <1>2, <2>4, PhaseWillBe
      <4> QED
        BY <1>2, <2>3, <2>4, <2>8, <4>1, PhaseIs
    <3>3. CASE AskedNow # Nobody
      BY <1>1, <1>3, <2>2, <2>6, <2>8, <3>1, <3>2, <3>3, Withdraws, OfOne
    <3>4. CASE AskedNow = Nobody
      <4>1. ~Resetting(c)
        BY <1>2, <3>4, NoQuestion
      <4>2. Still(c)
        BY <2>6, <2>8, <3>1, <4>1 DEF Still
      <4>3. \A x \in Clients : Still(x)
        BY <2>2, <4>2 DEF OnlyFor
      <4> QED
        BY <1>1, <1>3, <3>4, <4>3, Silent DEF Dialogues
    <3> QED
      BY <3>3, <3>4
  <2> QED
    BY <2>7, <2>8
<1> QED
  BY <1>5, <1>6

\* A client whose connection and streams a step leaves alone.
LEMMA Unseen ==
  ASSUME NEW x \in Clients, TypeOK, Awaits(x), client'[x] = client[x], up'[x] = up[x],
         reply'[x] = reply[x], down'[x] = down[x],
         x \in open' <=> x \in open, Queued(x)' <=> Queued(x), Resetting(x)' <=> Resetting(x),
         cur = x /\ out # <<>> => cur' = x /\ out' # <<>>
  PROVE  Still(x) /\ Awaits(x)'
<1>1. Connected(x)' <=> Connected(x)
  BY DEF Connected, Queued
<1>2. Awaits(x)'
  BY DEF Awaits, Owed
<1> QED
  BY <1>1, <1>2, Elsewhere

LEMMA FramesExist ==
  ASSUME NEW text \in Seq(Vocabulary), text # <<>>
  PROVE  Frames(text) # <<>>
<1>1. Len(Frames(text)) = FrameCount(text) /\ FrameCount(text) # 0
  BY FramesOf, FrameCounts
<1> QED
  BY <1>1

LEMMA DieWaits ==
  ASSUME TalkInv, Die
  PROVE  Awaited'
<1>1. /\ cur' = Nobody /\ open' = {} /\ queue' = <<>> /\ server' = "down"
      /\ UNCHANGED <<client, up, down, reply>>
  BY DEF Die, clientVars
<1>2. ASSUME NEW c \in Clients PROVE Awaits(c)'
  BY <1>1 DEF TalkInv, Awaited, Awaits, Queued, Resetting
<1> QED
  BY <1>1, <1>2, SessionAssumption DEF Awaited

LEMMA AcceptTalks ==
  ASSUME TalkInv, IInv', Accept
  PROVE  Dialogues /\ Awaited'
<1>1. PICK c : c = Head(queue)
  OBVIOUS
<1>2. /\ queue \in Seq(Clients) /\ queue # <<>> /\ TypeOK /\ TypeOK' /\ Nobody \notin Clients
      /\ cur \notin Clients
  BY SessionAssumption DEF TalkInv, IInv, Typed, TypeOK, Accept, ServerInv, Talking
<1>3. /\ cur' = c /\ queue' = Tail(queue) /\ open' = open \cup {c} /\ server = "accept"
      /\ server' = "order" /\ out' = Frames(<<Prompt>>)
      /\ reply' = [reply EXCEPT ![c] = <<Prompt>>]
      /\ UNCHANGED <<db, client, up, down>>
  BY <1>1 DEF Accept, Answer, clientVars
<1>4. /\ c \in Clients /\ Tail(queue) \in Seq(Clients) /\ Queued(c) /\ ~Queued(c)'
      /\ \A x \in Clients : x # c => (Queued(x)' <=> Queued(x))
  <2>1. /\ Len(queue) \in Nat /\ Len(queue) > 0 /\ DOMAIN queue = 1 .. Len(queue)
        /\ c = queue[1] /\ c \in Clients
        /\ Tail(queue) \in Seq(Clients) /\ DOMAIN Tail(queue) = 1 .. Len(queue) - 1
        /\ \A i \in 1 .. Len(queue) - 1 : Tail(queue)[i] = queue[i + 1]
    BY <1>1, <1>2, LenProperties, HeadTailProperties, EmptySeq
  <2>2. QueueInv
    BY DEF TalkInv, IInv
  <2>3. ~Queued(c)'
    <3>1. ASSUME NEW i \in 1 .. Len(queue) - 1 PROVE queue[i + 1] # c
      <4>1. i + 1 \in DOMAIN queue /\ 1 \in DOMAIN queue /\ i + 1 # 1
        BY <2>1
      <4> QED
        BY <2>1, <2>2, <4>1 DEF QueueInv
    <3> QED
      BY <1>3, <2>1, <3>1 DEF Queued
  <2>4. ASSUME NEW x \in Clients, x # c, Queued(x) PROVE Queued(x)'
    <3>1. PICK i \in 1 .. Len(queue) : queue[i] = x
      BY <2>1, <2>4 DEF Queued
    <3>2. i # 1
      BY <2>1, <2>4, <3>1
    <3>3. i - 1 \in 1 .. Len(queue) - 1 /\ Tail(queue)[i - 1] = queue[i - 1 + 1] /\ i - 1 + 1 = i
      BY <2>1, <3>2
    <3> QED
      BY <1>3, <2>1, <3>1, <3>3 DEF Queued
  <2>5. ASSUME NEW x \in Clients, Queued(x)' PROVE Queued(x)
    <3>1. PICK i \in 1 .. Len(queue) - 1 : queue[i + 1] = x
      BY <1>3, <2>1, <2>5 DEF Queued
    <3>2. i + 1 \in DOMAIN queue
      BY <2>1
    <3> QED
      BY <3>1, <3>2 DEF Queued
  <2> QED
    BY <2>1, <2>3, <2>4, <2>5 DEF Queued
<1>5. AskedNow = Nobody /\ AskedNow' = Nobody
  BY <1>3 DEF AskedNow
<1>6. /\ \A x \in Clients : ~Resetting(x) /\ ~Resetting(x)'
      /\ \A x \in Clients : x # c => reply'[x] = reply[x]
      /\ reply'[c] = <<Prompt>>
  BY <1>2, <1>3, <1>4 DEF Resetting, TypeOK
<1>7. ASSUME NEW x \in Clients, x # c PROVE Still(x) /\ Awaits(x)'
  BY <1>2, <1>3, <1>4, <1>6, <1>7, Unseen DEF TalkInv, Awaited
<1>8. /\ Awaits(c) /\ ClientInv(c) /\ reply[c] = <<>> /\ up[c] = <<>>
      /\ client[c] \in {"recv", "gone"}
  BY <1>4 DEF TalkInv, Awaited, Awaits, IInv, ClientInv
<1>9. /\ ~CutShort(c) /\ ~CutShort(c)' /\ SaidBy(c)' = SaidBy(c)
  BY <1>3, <1>4, <1>6, <1>8 DEF CutShort, Connected, Queued, SaidBy
<1>10. Frames(<<Prompt>>) # <<>>
  <2>1. <<Prompt>> \in Seq(Vocabulary) /\ <<Prompt>> # <<>>
    BY DEF Vocabulary
  <2> QED
    BY <2>1, FramesExist
<1>11. Awaited'
  <2>1. Awaits(c)'
    BY <1>3, <1>4, <1>6, <1>8, <1>10 DEF Awaits, Owed
  <2> QED
    BY <1>3, <1>6, <1>7, <2>1 DEF Awaited
<1>12. OnlyFor(c)
  BY <1>7 DEF OnlyFor
<1>13. CASE client[c] = "recv"
  <2>1. PhaseOf(c) = "away"
    BY <1>2, <1>4, <1>6, <1>8, <1>9, <1>13, PhaseIs
  <2>2. PhaseOf(c)' = "answered"
    <3>1. client'[c] = "recv" /\ up'[c] = <<>> /\ reply'[c] # <<>>
      BY <1>3, <1>6, <1>8, <1>13
    <3> QED
      BY <1>2, <1>4, <1>6, <1>9, <3>1, PhaseWillBe
  <2>3. HeardBy(c)' = <<Prompt>>
    BY <1>6, <2>2 DEF HeardBy
  <2> QED
    BY <1>3, <1>4, <1>5, <1>9, <1>11, <1>12, <2>1, <2>2, <2>3, Greets, OfOne
<1>14. CASE client[c] = "gone"
  <2>1. PhaseOf(c) = "left" /\ PhaseOf(c)' = "left"
    BY <1>2, <1>3, <1>4, <1>14, PhaseIs, PhaseWillBe
  <2>2. Still(c)
    BY <1>9, <2>1 DEF Still, HeardBy
  <2>3. \A x \in Clients : Still(x)
    BY <1>12, <2>2 DEF OnlyFor
  <2> QED
    BY <1>3, <1>5, <1>11, <2>3, Silent DEF Dialogues
<1> QED
  BY <1>8, <1>13, <1>14

LEMMA WriteTalks ==
  ASSUME TalkInv, IInv', Write \/ WriteToGone
  PROVE  Dialogues /\ Awaited'
<1>1. CASE Die
  BY <1>1, DieTalks, DieWaits
<1>2. CASE ~Die
  <2>1. PICK c : c = cur
    OBVIOUS
  <2>2. /\ out # <<>> /\ c \in Clients /\ TypeOK
    BY <2>1 DEF TalkInv, IInv, Typed, TypeOK, Write, WriteToGone, ServerInv, Talking
  <2>3. /\ UNCHANGED <<server, cur, db, open, client, queue, up, reply>>
        /\ \/ Write /\ down' = [down EXCEPT ![c] = @ \o Head(out)]
           \/ client[c] = "gone" /\ UNCHANGED down
    BY <1>2, <2>1 DEF Write, WriteToGone, clientVars
  <2>4. AskedNow' = AskedNow /\ \A x \in Clients : Resetting(x)' <=> Resetting(x)
    BY <2>3 DEF AskedNow, Resetting
  <2>5. ASSUME NEW x \in Clients, x # c PROVE Still(x) /\ Awaits(x)'
    <3>1. down'[x] = down[x] /\ (Queued(x)' <=> Queued(x)) /\ Awaits(x)
      BY <2>2, <2>3, <2>5 DEF TypeOK, Queued, TalkInv, Awaited
    <3> QED
      BY <2>1, <2>2, <2>3, <2>4, <2>5, <3>1, Unseen
  <2>6. c \in open /\ Awaits(c) /\ ~CutShort(c) /\ ~CutShort(c)'
    BY <2>1, <2>2, <2>3 DEF TalkInv, Awaited, CutShort, Connected
  <2>7. Still(c)
    BY <2>2, <2>3, <2>4, <2>6, SameFor
  <2>8. client[c] # "gone" => down'[c] # <<>>
    <3>1. CASE Write
      <4>1. out \in Seq(Seq(Units) \ {<<>>}) /\ down \in [Clients -> Seq(Units)]
        BY DEF TalkInv, IInv, Typed, TypeOK
      <4>2. Head(out) \in Seq(Units) \ {<<>>}
        BY <2>2, <4>1, HeadTailProperties
      <4>3. down'[c] = down[c] \o Head(out)
        BY <2>1, <2>2, <3>1, <4>1 DEF Write
      <4>4. down[c] \o Head(out) # <<>>
        BY <2>2, <4>1, <4>2, ConcatProperties, LenProperties, EmptySeq
      <4> QED
        BY <4>3, <4>4
    <3> QED
      BY <2>3, <3>1
  <2>9. Awaits(c)'
    BY <2>2, <2>3, <2>4, <2>6, <2>8 DEF Awaits, Owed, Queued
  <2>10. Awaited'
    BY <2>3, <2>5, <2>9 DEF TalkInv, Awaited
  <2> QED
    BY <2>3, <2>4, <2>5, <2>7, <2>10, Silent DEF Dialogues
<1> QED
  BY <1>1, <1>2

\* What the server knows of a client it is talking to.
LEMMA OfCurrent ==
  ASSUME TalkInv, server \in Talking
  PROVE  /\ cur \in Clients /\ cur \in open /\ reply[cur] # <<>>
         /\ ClientInv(cur) /\ Awaits(cur) /\ ~Queued(cur)
         /\ client[cur] \in {"recv", "type", "gone"}
         /\ TypeOK /\ Nobody \notin Clients
<1>1. cur \in Clients /\ client[cur] # "off" /\ TypeOK
  BY DEF TalkInv, IInv, Typed, ServerInv
<1>2. ClientInv(cur) /\ Awaits(cur) /\ cur \in open /\ reply[cur] # <<>>
  BY <1>1 DEF TalkInv, IInv, Awaited
<1>3. client[cur] \in {"off", "recv", "type", "gone"}
  BY <1>1 DEF TypeOK
<1> QED
  BY <1>1, <1>2, <1>3, SessionAssumption DEF ClientInv

LEMMA ServeTalks ==
  ASSUME WholeWrites, TalkInv, IInv', Serve
  PROVE  Dialogues /\ Awaited'
<1>1. server = "order" /\ Recv /\ Typed
  BY DEF Serve, Listening, TalkInv, IInv
<1>2. PICK c \in Clients : c = cur
  BY <1>1, OfCurrent DEF Talking
<1>3. /\ c \in open /\ ClientInv(c) /\ Awaits(c) /\ ~Queued(c)
      /\ client[c] \in {"recv", "type", "gone"}
      /\ TypeOK /\ TypeOK' /\ Nobody \notin Clients
  BY <1>1, <1>2, OfCurrent DEF Talking, IInv, Typed
<1>4. PICK order \in Orders : /\ Order = order
                             /\ up[c] = Message(order)
                             /\ up' = [up EXCEPT ![c] = <<>>]
  BY <1>1, <1>2, RecvOrder
<1>5. PICK a \in Answers(db, order) : out' = Frames(a) /\ reply' = [reply EXCEPT ![c] = a]
  BY <1>2, <1>4 DEF Serve, Answer
<1>6. /\ UNCHANGED <<cur, open, client, queue, down>> /\ db' = Effect(db, order)
  BY <1>4 DEF Serve, clientVars
<1>7. /\ order = Reset => server' = "confirm"
      /\ order # Reset => server' \in {"bye", "order"}
  <2>1. server' = CASE order = Reset -> "confirm"
                    [] order[1] = "exit" -> "bye"
                    [] OTHER -> "order"
    BY <1>4 DEF Serve
  <2>2. Reset[1] = "reset"
    BY DEF Reset, Command
  <2>3. CASE order = Reset
    BY <2>1, <2>2, <2>3
  <2>4. CASE order # Reset /\ order[1] = "exit"
    BY <2>1, <2>4
  <2>5. CASE order # Reset /\ order[1] # "exit"
    BY <2>1, <2>5
  <2> QED
    BY <2>3, <2>4, <2>5
<1>8. /\ \A x \in Clients : x # c => up'[x] = up[x] /\ reply'[x] = reply[x]
      /\ up'[c] = <<>> /\ reply'[c] = a
  BY <1>3, <1>4, <1>5 DEF TypeOK
<1>9. \A x \in Clients : ~Resetting(x) /\ ~Resetting(x)'
  BY <1>1, <1>7 DEF Resetting
<1>10. AskedNow = Nobody /\ AskedNow' = IF order = Reset THEN c ELSE Nobody
  BY <1>1, <1>2, <1>6, <1>7 DEF AskedNow
<1>11. ASSUME NEW x \in Clients, x # c PROVE Still(x) /\ Awaits(x)'
  <2>1. (Queued(x)' <=> Queued(x)) /\ Awaits(x)
    BY <1>6 DEF Queued, TalkInv, Awaited
  <2> QED
    BY <1>2, <1>3, <1>6, <1>8, <1>9, <1>11, <2>1, Unseen
<1>12. a \in Seq(Vocabulary) /\ a # <<>>
  <2>1. db \in Databases
    BY <1>3 DEF TypeOK
  <2> QED
    BY <2>1, AnswersAre
<1>13. Awaited'
  <2>1. Frames(a) # <<>>
    BY <1>12, FramesExist
  <2>2. Awaits(c)'
    BY <1>2, <1>3, <1>5, <1>6, <1>9, <2>1 DEF Awaits, Owed, Queued, ClientInv, TypeOK
  <2> QED
    BY <1>2, <1>3, <1>6, <1>8, <1>11, <1>12, <2>2 DEF Awaited
<1>14. SaidBy(c) = order /\ order # <<>> /\ SaidBy(c)' = <<>>
  <2>1. Message(order) # <<>> /\ SubSeq(Message(order), 1, 3) = order /\ order # <<>>
    BY OrderSaid
  <2> QED
    BY <1>4, <1>8, <1>9, <2>1 DEF SaidBy
<1>15. ~CutShort(c) /\ ~CutShort(c)' /\ up[c] # <<>>
  BY <1>3, <1>4, <1>6, OrderSaid DEF CutShort, Connected
<1>16. \/ PhaseOf(c) = "left" /\ PhaseOf(c)' = "left"
       \/ PhaseOf(c) = "asking" /\ PhaseOf(c)' = "answered" /\ HeardBy(c)' = a
  <2>1. CASE client[c] = "gone"
    BY <1>3, <1>6, <2>1, PhaseIs, PhaseWillBe
  <2>2. CASE client[c] = "recv"
    <3>1. PhaseOf(c) = "asking"
      BY <1>3, <1>15, <2>2, PhaseIs
    <3>2. PhaseOf(c)' = "answered"
      BY <1>3, <1>6, <1>8, <1>9, <1>12, <1>15, <2>2, PhaseWillBe
    <3> QED
      BY <1>8, <3>1, <3>2 DEF HeardBy
  <2>3. client[c] # "type"
    BY <1>3, <1>15 DEF ClientInv, Done
  <2> QED
    BY <1>3, <2>1, <2>2, <2>3
<1>17. OnlyFor(c)
  BY <1>11 DEF OnlyFor
<1>18. a \in IF AskedNow = c THEN {<<Prompt>>} ELSE Answers(db, SaidBy(c))
  BY <1>3, <1>10, <1>14
<1>19. Talk!Do(c)
  <2>1. AskedNow # c
    BY <1>3, <1>10
  <2> QED
    BY <1>6, <1>10, <1>14, <1>16, <1>17, <1>18, <2>1, Does
<1> QED
  BY <1>13, <1>19, OfOne

LEMMA ConfirmTalks ==
  ASSUME WholeWrites, TalkInv, IInv', Confirm
  PROVE  Dialogues /\ Awaited'
<1>1. server = "confirm" /\ Recv /\ Typed
  BY DEF Confirm, Listening, TalkInv, IInv
<1>2. PICK c \in Clients : c = cur
  BY <1>1, OfCurrent DEF Talking
<1>3. /\ c \in open /\ ClientInv(c) /\ Awaits(c) /\ ~Queued(c) /\ reply[c] # <<>>
      /\ client[c] \in {"recv", "type", "gone"}
      /\ TypeOK /\ TypeOK' /\ Nobody \notin Clients
  BY <1>1, <1>2, OfCurrent DEF Talking, IInv, Typed
<1>4. PICK order \in Orders : /\ Order = order
                             /\ up[c] = Message(order)
                             /\ up' = [up EXCEPT ![c] = <<>>]
  BY <1>1, <1>2, RecvOrder
<1>5. UNCHANGED <<cur, db, open, client, queue, down>>
  BY DEF Confirm, clientVars
<1>6. \/ order = Yes /\ server' = "clear" /\ UNCHANGED <<out, reply>>
      \/ order # Yes /\ server' = "order" /\ out' = Frames(<<Prompt>>)
           /\ reply' = [reply EXCEPT ![c] = <<Prompt>>]
  BY <1>2, <1>4 DEF Confirm, Answer
<1>7. /\ \A x \in Clients : x # c => up'[x] = up[x] /\ reply'[x] = reply[x]
      /\ up'[c] = <<>> /\ reply'[c] # <<>>
      /\ order # Yes => reply'[c] = <<Prompt>>
  <2>1. /\ \A x \in Clients : x # c => up'[x] = up[x]
        /\ up'[c] = <<>>
    BY <1>3, <1>4 DEF TypeOK
  <2>2. reply \in [Clients -> Seq(Vocabulary)] /\ <<Prompt>> # <<>>
    BY <1>3 DEF TypeOK
  <2>3. CASE order = Yes
    BY <1>3, <1>6, <2>1, <2>3
  <2>4. CASE order # Yes
    BY <1>6, <2>1, <2>2, <2>4
  <2> QED
    BY <2>3, <2>4
<1>8. /\ \A x \in Clients : ~Resetting(x)
      /\ \A x \in Clients : x # c => ~Resetting(x)'
      /\ Resetting(c)' <=> order = Yes
  BY <1>1, <1>2, <1>5, <1>6 DEF Resetting
<1>9. AskedNow = c /\ AskedNow' = IF order = Yes THEN c ELSE Nobody
  BY <1>1, <1>2, <1>5, <1>6 DEF AskedNow
<1>10. ASSUME NEW x \in Clients, x # c PROVE Still(x) /\ Awaits(x)'
  <2>1. (Queued(x)' <=> Queued(x)) /\ Awaits(x)
    BY <1>5 DEF Queued, TalkInv, Awaited
  <2> QED
    BY <1>2, <1>3, <1>5, <1>7, <1>8, <1>10, <2>1, Unseen
<1>11. OnlyFor(c)
  BY <1>10 DEF OnlyFor
<1>12. Awaited'
  <2>1. Frames(<<Prompt>>) # <<>>
    <3>1. <<Prompt>> \in Seq(Vocabulary) /\ <<Prompt>> # <<>>
      BY DEF Vocabulary
    <3> QED
      BY <3>1, FramesExist
  <2>2. Awaits(c)'
    BY <1>2, <1>3, <1>5, <1>6, <1>7, <1>8, <2>1 DEF Awaits, Owed, Queued, ClientInv, TypeOK
  <2> QED
    BY <1>2, <1>3, <1>5, <1>7, <1>10, <2>2 DEF Awaited
<1>13. SaidBy(c) = order /\ order # <<>> /\ up[c] # <<>>
       /\ SaidBy(c)' = IF order = Yes THEN Yes ELSE <<>>
  <2>1. Message(order) # <<>> /\ SubSeq(Message(order), 1, 3) = order /\ order # <<>>
    BY OrderSaid
  <2> QED
    BY <1>4, <1>7, <1>8, <2>1 DEF SaidBy
<1>14. ~CutShort(c) /\ ~CutShort(c)'
  BY <1>3, <1>5 DEF CutShort, Connected
<1>15. \/ PhaseOf(c) = "left" /\ PhaseOf(c)' = "left"
       \/ PhaseOf(c) = "asking" /\ PhaseOf(c)' = IF order = Yes THEN "asking" ELSE "answered"
  <2>1. CASE client[c] = "gone"
    BY <1>3, <1>5, <2>1, PhaseIs, PhaseWillBe
  <2>2. CASE client[c] = "recv"
    <3>1. PhaseOf(c) = "asking"
      BY <1>3, <1>13, <1>14, <2>2, PhaseIs
    <3>2. PhaseOf(c)' = IF order = Yes THEN "asking" ELSE "answered"
      BY <1>3, <1>5, <1>7, <1>8, <1>14, <2>2, PhaseWillBe
    <3> QED
      BY <3>1, <3>2
  <2>3. client[c] # "type"
    BY <1>3, <1>13 DEF ClientInv, Done
  <2> QED
    BY <1>3, <2>1, <2>2, <2>3
<1>16. CASE order = Yes
  <2>1. Still(c)
    BY <1>6, <1>13, <1>15, <1>16 DEF Still, HeardBy
  <2>2. \A x \in Clients : Still(x)
    BY <1>11, <2>1 DEF OnlyFor
  <2> QED
    BY <1>5, <1>9, <1>12, <1>16, <2>2, Silent DEF Dialogues
<1>17. CASE order # Yes
  <2>1. \/ PhaseOf(c) = "left" /\ PhaseOf(c)' = "left"
        \/ PhaseOf(c) = "asking" /\ PhaseOf(c)' = "answered" /\ HeardBy(c)' = <<Prompt>>
    BY <1>7, <1>15, <1>17 DEF HeardBy
  <2>2. <<Prompt>> \in IF AskedNow = c THEN {<<Prompt>>} ELSE Answers(db, SaidBy(c))
    BY <1>9
  <2>3. Talk!Do(c)
    BY <1>5, <1>9, <1>11, <1>13, <1>17, <2>1, <2>2, Does
  <2> QED
    BY <1>12, <2>3, OfOne
<1> QED
  BY <1>16, <1>17

LEMMA ResetTalks ==
  ASSUME TalkInv, IInv', Clear \/ Install
  PROVE  Dialogues /\ Awaited'
<1>1. server \in {"clear", "install"}
  BY DEF Clear, Install
<1>2. PICK c \in Clients : c = cur
  BY <1>1, OfCurrent DEF Talking
<1>3. /\ c \in open /\ ClientInv(c) /\ Awaits(c) /\ ~Queued(c) /\ reply[c] # <<>>
      /\ client[c] \in {"recv", "type", "gone"}
      /\ TypeOK /\ TypeOK' /\ Nobody \notin Clients
  BY <1>1, <1>2, OfCurrent DEF Talking, IInv, Typed
<1>4. UNCHANGED <<cur, open, client, queue, up, down>>
  BY DEF Clear, Install, clientVars
<1>5. /\ Resetting(c) /\ \A x \in Clients : x # c => ~Resetting(x) /\ ~Resetting(x)'
      /\ AskedNow = c
  BY <1>1, <1>2, <1>4 DEF Resetting, AskedNow
<1>6. /\ up[c] = <<>> /\ client[c] # "type" /\ SaidBy(c) = Yes
      /\ ~CutShort(c) /\ ~CutShort(c)'
  BY <1>3, <1>4, <1>5 DEF Awaits, ClientInv, SaidBy, CutShort, Connected
<1>7. CASE Clear
  <2>1. /\ server' = "install" /\ db' = Broken /\ UNCHANGED <<out, reply>>
    BY <1>7 DEF Clear
  <2>2. Resetting(c)' /\ AskedNow' = AskedNow
    BY <1>1, <1>2, <1>4, <2>1 DEF Resetting, AskedNow
  <2>3. ASSUME NEW x \in Clients PROVE Still(x) /\ Awaits(x)'
    <3>1. (Queued(x)' <=> Queued(x)) /\ Awaits(x) /\ (Resetting(x)' <=> Resetting(x))
      BY <1>4, <1>5, <2>2 DEF Queued, TalkInv, Awaited
    <3> QED
      BY <1>3, <1>4, <2>1, <3>1, Unseen
  <2>4. Awaited'
    BY <1>2, <1>3, <1>4, <2>1, <2>3 DEF Awaited
  <2> QED
    BY <1>5, <1>6, <2>1, <2>2, <2>3, <2>4, Wipes, OfOne
<1>8. CASE Install
  <2>1. /\ server' = "order" /\ db' = Fresh /\ out' = Frames(<<Prompt>>)
        /\ reply' = [reply EXCEPT ![c] = <<Prompt>>]
    BY <1>2, <1>8 DEF Install, Answer
  <2>2. /\ \A x \in Clients : x # c => reply'[x] = reply[x]
        /\ reply'[c] = <<Prompt>> /\ reply'[c] # <<>>
    BY <1>3, <2>1 DEF TypeOK
  <2>3. ~Resetting(c)' /\ AskedNow' = Nobody /\ SaidBy(c)' = <<>>
    BY <1>4, <1>6, <2>1 DEF Resetting, AskedNow, SaidBy
  <2>4. ASSUME NEW x \in Clients, x # c PROVE Still(x) /\ Awaits(x)'
    <3>1. (Queued(x)' <=> Queued(x)) /\ Awaits(x)
      BY <1>4 DEF Queued, TalkInv, Awaited
    <3> QED
      BY <1>2, <1>3, <1>4, <1>5, <2>2, <2>4, <3>1, Unseen
  <2>5. OnlyFor(c)
    BY <2>4 DEF OnlyFor
  <2>6. Frames(<<Prompt>>) # <<>>
    <3>1. <<Prompt>> \in Seq(Vocabulary) /\ <<Prompt>> # <<>>
      BY DEF Vocabulary
    <3> QED
      BY <3>1, FramesExist
  <2>7. Awaits(c)'
    BY <1>2, <1>3, <1>4, <1>6, <2>1, <2>3, <2>6 DEF Awaits, Owed, Queued
  <2>8. Awaited'
    BY <1>2, <1>3, <1>4, <2>2, <2>4, <2>7 DEF Awaited
  <2>9. \/ PhaseOf(c) = "left" /\ PhaseOf(c)' = "left"
        \/ PhaseOf(c) = "asking" /\ PhaseOf(c)' = "answered" /\ HeardBy(c)' = <<Prompt>>
    <3>1. CASE client[c] = "gone"
      BY <1>3, <1>4, <3>1, PhaseIs, PhaseWillBe
    <3>2. CASE client[c] = "recv"
      <4>1. PhaseOf(c) = "asking"
        BY <1>3, <1>5, <1>6, <3>2, PhaseIs
      <4>2. PhaseOf(c)' = "answered"
        BY <1>3, <1>4, <1>6, <2>2, <2>3, <3>2, PhaseWillBe
      <4> QED
        BY <2>2, <4>1, <4>2 DEF HeardBy
    <3> QED
      BY <1>3, <1>6, <3>1, <3>2
  <2>10. <<Prompt>> \in IF AskedNow = c THEN {<<Prompt>>} ELSE Answers(db, SaidBy(c))
    BY <1>5
  <2>11. SaidBy(c) # <<>>
    BY <1>6 DEF Yes, Command
  <2>12. Talk!Do(c)
    BY <1>5, <1>6, <2>1, <2>3, <2>5, <2>9, <2>10, <2>11, Does
  <2> QED
    BY <2>8, <2>12, OfOne
<1> QED
  BY <1>7, <1>8

LEMMA SignOffTalks ==
  ASSUME TalkInv, IInv', SignOff
  PROVE  Dialogues /\ Awaited'
<1>1. /\ server = "bye" /\ server' = "accept" /\ cur' = Nobody /\ out = <<>>
      /\ UNCHANGED <<db, out, open, client, queue, up, down, reply>>
  BY DEF SignOff, Listening, Leave, clientVars
<1>2. /\ TypeOK /\ \A x \in Clients : ~Resetting(x) /\ ~Resetting(x)'
      /\ AskedNow' = AskedNow
  BY <1>1 DEF TalkInv, IInv, Typed, Resetting, AskedNow
<1>3. ASSUME NEW x \in Clients PROVE Still(x) /\ Awaits(x)'
  <2>1. (Queued(x)' <=> Queued(x)) /\ Awaits(x)
    BY <1>1 DEF Queued, TalkInv, Awaited
  <2> QED
    BY <1>1, <1>2, <2>1, Unseen
<1>4. Awaited'
  BY <1>1, <1>3, SessionAssumption DEF Awaited
<1> QED
  BY <1>1, <1>2, <1>3, <1>4, Silent DEF Dialogues

LEMMA HangupTalks ==
  ASSUME TalkInv, IInv', Hangup
  PROVE  Dialogues /\ Awaited'
<1>1. /\ server \in {"order", "confirm"} /\ server' = "accept" /\ cur' = Nobody
      /\ out = <<>> /\ client[cur] = "gone" /\ up[cur] = <<>> /\ open' = open \ {cur}
      /\ UNCHANGED <<db, out, client, queue, up, down, reply>>
  BY DEF Hangup, Listening, EndOfFile, Leave, clientVars
<1>2. PICK c \in Clients : c = cur
  BY <1>1, OfCurrent DEF Talking
<1>3. /\ ~Queued(c) /\ Awaits(c) /\ TypeOK /\ TypeOK' /\ Nobody \notin Clients
      /\ \A x \in Clients : ~Resetting(x) /\ ~Resetting(x)'
  BY <1>1, <1>2, OfCurrent DEF Talking, IInv, Typed, Resetting
<1>4. AskedNow' = Nobody
  BY <1>1 DEF AskedNow
<1>5. ASSUME NEW x \in Clients, x # c PROVE Still(x) /\ Awaits(x)'
  <2>1. (Queued(x)' <=> Queued(x)) /\ Awaits(x)
    BY <1>1 DEF Queued, TalkInv, Awaited
  <2>2. x \in open' <=> x \in open
    BY <1>1, <1>2, <1>5
  <2> QED
    BY <1>1, <1>2, <1>3, <1>5, <2>1, <2>2, Unseen
<1>6. PhaseOf(c) = "left" /\ PhaseOf(c)' = "left" /\ SaidBy(c)' = SaidBy(c)
      /\ HeardBy(c)' = HeardBy(c)
  <2>1. PhaseOf(c) = "left" /\ PhaseOf(c)' = "left"
    BY <1>1, <1>2, <1>3, PhaseIs, PhaseWillBe
  <2> QED
    BY <1>1, <1>3, <2>1 DEF SaidBy, HeardBy
<1>7. Awaited'
  <2>1. Awaits(c)'
    BY <1>1, <1>2, <1>3 DEF Awaits, Queued
  <2> QED
    BY <1>1, <1>3, <1>5, <2>1 DEF Awaited
<1>8. OnlyFor(c)
  BY <1>5 DEF OnlyFor
<1>9. CASE AskedNow # Nobody
  BY <1>1, <1>4, <1>6, <1>7, <1>8, <1>9, Withdraws, OfOne
<1>10. CASE AskedNow = Nobody
  <2>1. \A x \in Clients : Still(x)
    BY <1>6, <1>8 DEF Still, OnlyFor
  <2> QED
    BY <1>1, <1>4, <1>7, <1>10, <2>1, Silent DEF Dialogues
<1> QED
  BY <1>9, <1>10

LEMMA RestartTalks ==
  ASSUME TalkInv, Restart
  PROVE  Dialogues /\ Awaited'
<1>1. /\ server = "down" /\ server' = "accept"
      /\ UNCHANGED <<cur, db, out, open, client, queue, up, down, reply>>
  BY DEF Restart, clientVars
<1>2. /\ TypeOK /\ AskedNow' = AskedNow
      /\ \A x \in Clients : ~Resetting(x) /\ ~Resetting(x)'
  BY <1>1 DEF TalkInv, IInv, Typed, Resetting, AskedNow
<1>3. ASSUME NEW x \in Clients PROVE Still(x) /\ Awaits(x)'
  <2>1. (Queued(x)' <=> Queued(x)) /\ Awaits(x)
    BY <1>1 DEF Queued, TalkInv, Awaited
  <2> QED
    BY <1>1, <1>2, <2>1, Unseen
<1>4. Awaited'
  BY <1>1, <1>3 DEF TalkInv, Awaited
<1> QED
  BY <1>1, <1>2, <1>3, <1>4, Silent DEF Dialogues

(***************************************************************************)
(* The steps of a client.                                                  *)
(***************************************************************************)
LEMMA ShowTalks ==
  ASSUME WholeWrites, TalkInv, IInv', NEW c \in Clients, Show(c)
  PROVE  Dialogues /\ Awaited'
<1> DEFINE text == reply[c]  frames == Frames(text)  N == FrameCount(text)
<1>1. IInv
  BY DEF TalkInv
<1>2. /\ client[c] = "recv" /\ down[c] # <<>> /\ Reading(c)
      /\ up[c] = <<>> /\ ~Resetting(c) /\ ~Queued(c)
  BY <1>1, ShowReads DEF Show
<1>3. PICK j \in 0 .. N - 1, m \in 0 .. N :
        \E rest \in Seq(Units), buf \in [1 .. MaxData -> Units] :
          /\ j < m
          /\ InTransit(rest, frames, j + 1, m)
          /\ cur = c => out = SubSeq(frames, m + 1, Len(frames))
          /\ down' = [down EXCEPT ![c] = rest]
          /\ rbuf' = [rbuf EXCEPT ![c] = buf]
          /\ screen' = [screen EXCEPT ![c] = ShownUpTo(text, j + 1)]
          /\ client' = [client EXCEPT ![c] = IF j + 1 = N THEN "type" ELSE "recv"]
  BY <1>1, ShowReads
<1>4. PICK rest \in Seq(Units) :
          /\ j < m
          /\ InTransit(rest, frames, j + 1, m)
          /\ cur = c => out = SubSeq(frames, m + 1, Len(frames))
          /\ down' = [down EXCEPT ![c] = rest]
          /\ client' = [client EXCEPT ![c] = IF j + 1 = N THEN "type" ELSE "recv"]
  BY <1>3
<1>5. UNCHANGED <<server, cur, db, out, open, queue, up, reply>>
  BY DEF Show, serverVars
<1>6. /\ TypeOK /\ TypeOK' /\ Nobody \notin Clients /\ Awaits(c)
      /\ client \in [Clients -> {"off", "recv", "type", "gone"}]
      /\ down \in [Clients -> Seq(Units)] /\ text \in Seq(Vocabulary)
  BY <1>1, SessionAssumption DEF IInv, Typed, TypeOK, TalkInv, Awaited
<1>7. /\ down'[c] = rest /\ client'[c] = IF j + 1 = N THEN "type" ELSE "recv"
      /\ \A x \in Clients : x # c => down'[x] = down[x] /\ client'[x] = client[x]
  BY <1>4, <1>6
<1>8. /\ N \in Nat /\ text # <<>>
  BY <1>6, FrameCounts
<1>9. AskedNow' = AskedNow /\ \A x \in Clients : Resetting(x)' <=> Resetting(x)
  BY <1>5 DEF AskedNow, Resetting
<1>10. ASSUME NEW x \in Clients, x # c PROVE Still(x) /\ Awaits(x)'
  <2>1. (Queued(x)' <=> Queued(x)) /\ Awaits(x)
    BY <1>5 DEF Queued, TalkInv, Awaited
  <2> QED
    BY <1>5, <1>6, <1>7, <1>9, <1>10, <2>1, Unseen
<1>11. OnlyFor(c)
  BY <1>10 DEF OnlyFor
<1>12. ASSUME c \in open, j + 1 # N PROVE rest # <<>> \/ (cur = c /\ out # <<>>)
  <2>1. CASE c # cur
    <3>1. text = GoodBye
      BY <1>12, <2>1 DEF TalkInv, HeldInv, HeldConnections
    <3>2. Len(text) = 2 /\ Payload \in Nat /\ Payload >= 2
      BY <3>1, SessionAssumption DEF GoodBye, Payload
    <3>3. N >= 2
      BY <1>8, <1>12
    <3>4. 2 \in 1 .. N /\ (2 - 1) * Payload < Len(text)
      <4>1. \A k \in 1 .. N : (k - 1) * Payload < Len(text)
        BY <1>6, FrameCounts
      <4>2. 2 \in 1 .. N
        BY <1>8, <3>3
      <4> QED
        BY <4>1, <4>2
    <3> QED
      BY <3>2, <3>4
  <2>2. CASE c = cur /\ rest = <<>>
    <3>1. /\ Len(frames) = N /\ Framed(frames)
      BY <1>6, FramesOf, FramesAreFramed
    <3>2. rest = <<>> <=> j + 1 = m
      <4>1. j + 1 \in Nat /\ m \in Nat /\ j + 1 <= m /\ m <= Len(frames)
        BY <1>4, <1>8, <3>1
      <4> HIDE DEF frames, N
      <4> QED
        BY <1>4, <3>1, <4>1, StreamSize
    <3>3. m < N /\ m \in Nat /\ out = SubSeq(frames, m + 1, N)
      BY <1>4, <1>8, <1>12, <2>2, <3>1, <3>2
    <3>4. frames \in Seq(Seq(Units) \ {<<>>})
      BY <1>6, FramesOf
    <3>5. Len(SubSeq(frames, m + 1, m + (N - m))) = N - m
      <4>1. N - m \in Nat /\ m + (N - m) <= Len(frames)
        BY <1>8, <3>1, <3>3
      <4> HIDE DEF frames, N
      <4> QED
        BY <3>3, <3>4, <4>1, Slice
    <3>6. Len(out) = N - m
      BY <1>8, <3>3, <3>5
    <3>7. out # <<>>
      <4>1. N - m # 0
        BY <1>8, <3>3
      <4> HIDE DEF N
      <4> QED
        BY <3>6, <4>1
    <3> QED
      BY <2>2, <3>7
  <2> QED
    BY <2>1, <2>2
<1>13. Awaits(c)'
  <2>1. /\ ~Queued(c)' /\ client'[c] # "off" /\ ~Resetting(c)'
    BY <1>2, <1>5, <1>7, <1>9 DEF Queued
  <2>2. c \in open' /\ client'[c] = "recv" => Owed(c)'
    BY <1>5, <1>7, <1>12 DEF Owed
  <2> QED
    BY <2>1, <2>2 DEF Awaits
<1>14. Awaited'
  BY <1>5, <1>10, <1>13 DEF TalkInv, Awaited
<1>15. PhaseOf(c) = "answered" /\ SaidBy(c)' = SaidBy(c)
  <2>1. ~CutShort(c)
    BY <1>2 DEF CutShort
  <2>2. PhaseOf(c) = "answered"
    BY <1>2, <1>6, <1>8, <2>1, PhaseIs
  <2> QED
    BY <1>5, <1>9, <2>2 DEF SaidBy
<1>16. CASE client'[c] = "type"
  <2>1. PhaseOf(c)' = "ready"
    BY <1>6, <1>16, PhaseWillBe
  <2>2. HeardBy(c)' = HeardBy(c)
    BY <1>5, <1>15, <2>1 DEF HeardBy
  <2> QED
    BY <1>5, <1>9, <1>11, <1>14, <1>15, <2>1, <2>2, ReadsAll, OfOne
<1>17. CASE client'[c] = "recv" /\ CutShort(c)'
  <2>1. PhaseOf(c)' = "left"
    BY <1>6, <1>17, PhaseWillBe
  <2> QED
    BY <1>5, <1>9, <1>11, <1>14, <1>15, <2>1, Leaves, OfOne
<1>18. CASE client'[c] = "recv" /\ ~CutShort(c)'
  <2>1. PhaseOf(c)' = "answered"
    <3>1. up'[c] = <<>> /\ ~Resetting(c)' /\ reply'[c] # <<>>
      BY <1>2, <1>5, <1>8, <1>9
    <3> QED
      BY <1>6, <1>18, <3>1, PhaseWillBe
  <2>2. Still(c)
    BY <1>5, <1>15, <2>1 DEF Still, HeardBy
  <2>3. \A x \in Clients : Still(x)
    BY <1>11, <2>2 DEF OnlyFor
  <2> QED
    BY <1>5, <1>9, <1>14, <2>3, Silent DEF Dialogues
<1> QED
  BY <1>7, <1>16, <1>17, <1>18

LEMMA GoneTalks ==
  ASSUME TalkInv, IInv', NEW c \in Clients, client' = [client EXCEPT ![c] = "gone"],
         UNCHANGED <<server, cur, db, out, open, queue, up, down, reply>>
  PROVE  Dialogues /\ Awaited'
<1>1. /\ TypeOK /\ TypeOK' /\ Awaits(c) /\ client'[c] = "gone"
      /\ \A x \in Clients : x # c => client'[x] = client[x]
      /\ AskedNow' = AskedNow /\ \A x \in Clients : Resetting(x)' <=> Resetting(x)
  BY DEF TalkInv, Awaited, IInv, Typed, TypeOK, AskedNow, Resetting
<1>2. ASSUME NEW x \in Clients, x # c PROVE Still(x) /\ Awaits(x)'
  <2>1. (Queued(x)' <=> Queued(x)) /\ Awaits(x)
    BY DEF Queued, TalkInv, Awaited
  <2> QED
    BY <1>1, <1>2, <2>1, Unseen
<1>3. OnlyFor(c)
  BY <1>2 DEF OnlyFor
<1>4. Awaited'
  <2>1. Awaits(c)'
    BY <1>1 DEF Awaits, Queued
  <2> QED
    BY <1>2, <2>1 DEF TalkInv, Awaited
<1>5. PhaseOf(c)' = "left" /\ SaidBy(c)' = SaidBy(c)
  <2>1. PhaseOf(c)' = "left"
    BY <1>1, PhaseWillBe
  <2> QED
    BY <1>1, <2>1 DEF SaidBy
<1>6. CASE PhaseOf(c) # "left"
  BY <1>1, <1>3, <1>4, <1>5, <1>6, Leaves, OfOne
<1>7. CASE PhaseOf(c) = "left"
  <2>1. Still(c)
    BY <1>5, <1>7 DEF Still, HeardBy
  <2>2. \A x \in Clients : Still(x)
    BY <1>3, <2>1 DEF OnlyFor
  <2> QED
    BY <1>1, <1>4, <2>2, Silent DEF Dialogues
<1> QED
  BY <1>6, <1>7

LEMMA ConnectTalks ==
  ASSUME TalkInv, IInv', NEW c \in Clients, Connect(c)
  PROVE  Dialogues /\ Awaited'
<1>1. CASE server = "down"
  <2>1. /\ client' = [client EXCEPT ![c] = "gone"]
        /\ UNCHANGED <<server, cur, db, out, open, queue, up, down, reply>>
    BY <1>1 DEF Connect, Become, serverVars
  <2> QED
    BY <2>1, GoneTalks
<1>2. CASE server # "down"
  <2>1. /\ client[c] = "off" /\ client' = [client EXCEPT ![c] = "recv"]
        /\ queue' = Append(queue, c)
        /\ UNCHANGED <<server, cur, db, out, open, up, down, reply>>
    BY <1>2 DEF Connect, Become, serverVars
  <2>2. /\ TypeOK /\ TypeOK' /\ queue \in Seq(Clients) /\ Awaits(c) /\ ClientInv(c)
        /\ ServerInv /\ client \in [Clients -> {"off", "recv", "type", "gone"}]
    BY DEF TalkInv, IInv, Typed, TypeOK, Awaited
  <2>3. /\ client'[c] = "recv" /\ \A x \in Clients : x # c => client'[x] = client[x]
        /\ AskedNow' = AskedNow /\ \A x \in Clients : Resetting(x)' <=> Resetting(x)
    BY <2>1, <2>2 DEF AskedNow, Resetting
  <2>4. /\ up[c] = <<>> /\ reply[c] = <<>> /\ c \notin open /\ cur # c /\ ~Resetting(c)
    BY <2>1, <2>2 DEF Awaits, ClientInv, ServerInv, Resetting
  <2>5. Queued(c)' /\ \A x \in Clients : x # c => (Queued(x)' <=> Queued(x))
    <3>1. /\ Len(queue) \in Nat /\ DOMAIN queue = 1 .. Len(queue)
          /\ DOMAIN Append(queue, c) = 1 .. Len(queue) + 1
          /\ \A i \in 1 .. Len(queue) : Append(queue, c)[i] = queue[i]
          /\ Append(queue, c)[Len(queue) + 1] = c
      <4>1. /\ Append(queue, c) \in Seq(Clients) /\ Len(Append(queue, c)) = Len(queue) + 1
            /\ \A i \in 1 .. Len(queue) : Append(queue, c)[i] = queue[i]
            /\ Append(queue, c)[Len(queue) + 1] = c
        BY <2>2, AppendProperties
      <4> QED
        BY <2>2, <4>1, LenProperties
    <3> QED
      BY <2>1, <3>1 DEF Queued
  <2>6. ASSUME NEW x \in Clients, x # c PROVE Still(x) /\ Awaits(x)'
    <3>1. Awaits(x)
      BY DEF TalkInv, Awaited
    <3> QED
      BY <2>1, <2>2, <2>3, <2>5, <2>6, <3>1, Unseen
  <2>7. Awaited'
    <3>1. Awaits(c)'
      BY <2>1, <2>3, <2>4 DEF Awaits
    <3> QED
      BY <2>1, <2>6, <3>1 DEF TalkInv, Awaited
  <2>8. Still(c)
    <3>1. PhaseOf(c) = "away"
      BY <2>1, <2>2, PhaseIs
    <3>2. ~CutShort(c)'
      BY <2>1, <2>4 DEF CutShort
    <3>3. PhaseOf(c)' = "away"
      BY <2>1, <2>2, <2>3, <2>4, <3>2, PhaseWillBe
    <3> QED
      BY <2>1, <2>3, <3>1, <3>3 DEF Still, SaidBy, HeardBy
  <2> QED
    BY <2>1, <2>3, <2>6, <2>7, <2>8, Silent DEF Dialogues
<1> QED
  BY <1>1, <1>2

LEMMA TypeTalks ==
  ASSUME TalkInv, IInv', NEW c \in Clients, NEW order \in Orders, Type(c, order)
  PROVE  Dialogues /\ Awaited'
<1>1. /\ client[c] = "type" /\ client' = [client EXCEPT ![c] = "recv"]
      /\ up' = [up EXCEPT ![c] = @ \o Message(order)]
      /\ UNCHANGED <<server, cur, db, out, open, queue, down, reply>>
  BY DEF Type, Become, serverVars
<1>2. /\ TypeOK /\ TypeOK' /\ Awaits(c) /\ ClientInv(c)
      /\ client \in [Clients -> {"off", "recv", "type", "gone"}]
      /\ up \in [Clients -> Seq(Vocabulary)]
  BY DEF TalkInv, IInv, Typed, TypeOK, Awaited
<1>3. /\ Message(order) \in Seq(Vocabulary) /\ Message(order) # <<>>
      /\ SubSeq(Message(order), 1, 3) = order /\ order # <<>>
  BY MessageOf, OrderSaid
<1>4. /\ up[c] = <<>> /\ ~Resetting(c) /\ ~Queued(c)
  BY <1>1, <1>2 DEF ClientInv, Done
<1>5. /\ client'[c] = "recv" /\ up'[c] = Message(order)
      /\ \A x \in Clients : x # c => client'[x] = client[x] /\ up'[x] = up[x]
      /\ AskedNow' = AskedNow /\ \A x \in Clients : Resetting(x)' <=> Resetting(x)
  BY <1>1, <1>2, <1>3, <1>4 DEF AskedNow, Resetting
<1>6. ASSUME NEW x \in Clients, x # c PROVE Still(x) /\ Awaits(x)'
  <2>1. (Queued(x)' <=> Queued(x)) /\ Awaits(x)
    BY <1>1 DEF Queued, TalkInv, Awaited
  <2> QED
    BY <1>1, <1>2, <1>5, <1>6, <2>1, Unseen
<1>7. OnlyFor(c)
  BY <1>6 DEF OnlyFor
<1>8. Awaited'
  <2>1. Awaits(c)'
    BY <1>1, <1>2, <1>3, <1>4, <1>5 DEF Awaits, Queued
  <2> QED
    BY <1>1, <1>6, <2>1 DEF TalkInv, Awaited
<1>9. PhaseOf(c) = "ready" /\ PhaseOf(c)' = "asking" /\ SaidBy(c)' = order
      /\ HeardBy(c)' = HeardBy(c)
  <2>1. PhaseOf(c) = "ready"
    BY <1>1, <1>2, PhaseIs
  <2>2. ~CutShort(c)'
    BY <1>3, <1>5 DEF CutShort
  <2>3. PhaseOf(c)' = "asking"
    BY <1>2, <1>3, <1>5, <2>2, PhaseWillBe
  <2> QED
    BY <1>1, <1>3, <1>5, <2>1, <2>3 DEF SaidBy, HeardBy
<1>10. Talk!Ask(c, order)
  BY <1>1, <1>5, <1>7, <1>9, AsksFor
<1> QED
  BY <1>8, <1>10, SameCommands DEF Dialogues, Talk!Next

LEMMA StepTalks ==
  ASSUME WholeWrites, TalkInv, IInv', [Next \/ Crash]_vars
  PROVE  Dialogues /\ Awaited'
<1>1. CASE ServerStep
  BY <1>1, AcceptTalks, WriteTalks, ServeTalks, SignOffTalks, ConfirmTalks, ResetTalks,
     HangupTalks DEF ServerStep
<1>2. CASE Restart
  BY <1>2, RestartTalks
<1>3. ASSUME NEW c \in Clients,
             \/ ClientStep(c) \/ Connect(c) \/ Quit(c) \/ Kill(c)
             \/ \E order \in Orders : Type(c, order)
      PROVE  Dialogues /\ Awaited'
  <2>1. CASE Disconnected(c) \/ Quit(c) \/ Kill(c)
    <3>1. /\ client' = [client EXCEPT ![c] = "gone"]
          /\ UNCHANGED <<server, cur, db, out, open, queue, up, down, reply>>
      BY <2>1 DEF Disconnected, Quit, Kill, Become, serverVars
    <3> QED
      BY <3>1, GoneTalks
  <2> QED
    BY <1>3, <2>1, ShowTalks, ConnectTalks, TypeTalks DEF ClientStep
<1>4. CASE Crash
  BY <1>4, DieTalks, DieWaits DEF Crash
<1>5. CASE UNCHANGED vars
  <2>1. /\ UNCHANGED <<server, cur, db, out, open, client, queue, up, down, reply>>
    BY <1>5 DEF vars, serverVars, clientVars
  <2>2. /\ TypeOK /\ AskedNow' = AskedNow
        /\ \A x \in Clients : Resetting(x)' <=> Resetting(x)
    BY <2>1 DEF TalkInv, IInv, Typed, AskedNow, Resetting
  <2>3. ASSUME NEW x \in Clients PROVE Still(x) /\ Awaits(x)'
    <3>1. (Queued(x)' <=> Queued(x)) /\ Awaits(x)
      BY <2>1 DEF Queued, TalkInv, Awaited
    <3> QED
      BY <2>1, <2>2, <3>1, Unseen
  <2> QED
    BY <2>1, <2>2, <2>3, Silent DEF Dialogues, TalkInv, Awaited
<1> QED
  BY <1>1, <1>2, <1>3, <1>4, <1>5 DEF Next

LEMMA InitTalks == Init => Talk!Init /\ Awaited
<1> SUFFICES ASSUME Init PROVE Talk!Init /\ Awaited
  OBVIOUS
<1>1. /\ server = "accept" /\ cur = Nobody /\ db = Fresh /\ queue = <<>> /\ open = {}
      /\ \A c \in Clients : client[c] = "off" /\ up[c] = <<>> /\ reply[c] = <<>>
      /\ Nobody \notin Clients
  BY SessionAssumption DEF Init
<1>2. ASSUME NEW c \in Clients
      PROVE  PhaseOf(c) = "away" /\ SaidBy(c) = <<>> /\ HeardBy(c) = <<>> /\ Awaits(c)
  <2>1. PhaseOf(c) = "away"
    BY <1>1 DEF PhaseOf
  <2> QED
    BY <1>1, <2>1 DEF SaidBy, HeardBy, Awaits, Resetting
<1>3. AskedNow = Nobody
  BY <1>1 DEF AskedNow
<1>4. /\ [c \in Clients |-> PhaseOf(c)] = [c \in Clients |-> "away"]
      /\ [c \in Clients |-> SaidBy(c)] = [c \in Clients |-> <<>>]
      /\ [c \in Clients |-> HeardBy(c)] = [c \in Clients |-> <<>>]
  BY <1>2
<1>5. Talk!Init
  BY <1>1, <1>3, <1>4, SameCommands DEF Talk!Init, Talk!Silence, SaidBy, HeardBy, AskedNow
<1> QED
  BY <1>1, <1>2, <1>5 DEF Awaited

\* server.cpp and client.cpp together keep what Dialogue promises to a person
\* at a client, however many clients come and go and wherever the server or a
\* client is killed: a command is carried out once, the answer that is read
\* is the answer to that command, and only a plain y as the next command
\* after reset empties the database.
THEOREM SessionsAreDialogues ==
  ASSUME WholeWrites
  PROVE  CrashSpec => DialogueSpec
<1>1. ASSUME IInv, IInv', HeldInv, Awaited, [Next \/ Crash]_vars
      PROVE  [Talk!Next]_(Talk!vars) /\ Awaited'
  <2>1. Dialogues /\ Awaited'
    BY <1>1, StepTalks DEF TalkInv
  <2> QED
    BY <2>1 DEF Dialogues
<1>2. IInv /\ IInv' /\ HeldInv /\ Awaited /\ [Next \/ Crash]_vars =>
        [Talk!Next]_(Talk!vars) /\ Awaited'
  BY <1>1
<1>3. CrashSpec => []IInv /\ []HeldInv
  BY Invariance, HeldAlways
<1> QED
  BY <1>2, <1>3, InitTalks, PTL DEF CrashSpec, DialogueSpec, Talk!Spec
=============================================================================
