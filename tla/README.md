# A verification of the block storage system

The program is a small key-value database in C++. Fixed-size blocks live in
files; an allocator hands them out; doubly linked lists and treaps are built
from blocks; maps and lists are registered by name; a TCP server offers the maps
to a text client. This directory holds TLA+ models of that code, the TLC runs
that check them on small instances, and TLAPS proofs for every instance.
Paths below are relative to the repository (`src/`).

## 1. The system

```
client.cpp  --TCP-->  server.cpp  -->  db_manage.h   registry: name -> root block
                                        |        |
                                     db_map.h   db_list.h
                                        |        |
                                     treap.h     |
                                        |        |
                                      node_class.h        typed view of one block
                                        |
                                   memory_operation.h     which blocks are in use
                                        |
                                   file_operation.h       bytes of a block in a file
```

All calls go downwards and are synchronous. There are no threads: concurrency
comes from several processes linked with the library (and the server is one of
them), sharing the files, and from clients and server on either side of a
connection. The only synchronisation is `fcntl` locks on a single block, on a
whole file while its lines are counted, on `node_pointer.dat`, and on
`node_trash.dat`.

| component | state | operations | properties that make it correct |
|---|---|---|---|
| block files, `file_operation.h` | `*.ndb` and `*.fdb` files of fixed-size blocks | `write_`, `read_` and count of lines, for node and record blocks; integers and strings to bytes and back | a block read is one written whole; the conversions invert each other |
| allocator, `memory_operation.h` | `node_pointer.dat`: frontier and number of free blocks; `node_trash.dat`: stack of free blocks | `new_node_position`, `delete_node`, `used_memory`, `clear_all_nodes` | a block has one owner; a free block is handed out before the files grow; `used_memory` is the number of blocks in use; locks are given back |
| node classes, `node_class.h` | one block each | `load`, `save`, `create`, `release`; order and assignment of keys | what is saved is loaded again; keys are totally ordered |
| list, `db_list.h` | header block (head, tail, size), one block per element (prev, succ, key) | `create`, `push_*`, `pop_*`, `update`, `get_by_index`, `get_all_value`, `release`, `clear` | it is a sequence; links agree both ways; no block shared, lost or used after it is freed |
| tree, `treap.h` | header block (root, hash_top), one block per node (left, right, size, hash, random, key, value) | `Insert`, `Remove`, `Find`, rotations, `release`, `clear` | search order; exact sizes; heap order of RANDOM; no node lost |
| map, `db_map.h` | a tree, and a copy of its header in each variable | `add`, `update`, `drop`, `get_by_key`, `get_all_key`, `get_size` | it is a partial function from keys to values |
| registry, `db_manage.h` | two root maps, named in `db_root.dat` | `install`, `get_/create_/delete_map`, `..._list`, `exists` | names and structures correspond; deleting gives every block back; a call changes only what it names; what a kill damages has limits |
| server, `server.cpp` | the connection, the receive buffer, a confirmation dialogue | accept loop, 11 commands | an answer answers its command; only a confirmed `reset` clears the database; a client that leaves does not hold up the queue |
| client, `client.cpp` | a receive buffer | send a line, reassemble the frames of the answer | it prints the whole answer, and then prompts |
| helpers, `useful_tools.h` | none | fixed-width names and values | names that fit are told apart |

### What is hard here

* **Interleavings.** Two processes in the allocator at once; two processes that
  read and write one block, or create one file; a process that works on a list
  while another works on a different one with blocks from the same pool.
  `F_ULOCK`, which `new_node_position` uses to unlock, has the value of
  `F_RDLCK`: as an `fcntl` lock type it downgrades, it does not unlock.
* **Crashes.** Nothing is journalled. A process can die between any two writes:
  after a block is counted free and before it is on the stack, after it is
  linked and before it is counted, after a map is freed and before its name is
  dropped, between two of the nodes that an insertion or a removal writes, after a
  reset cleared the blocks and before the root maps are back.
* **Stale copies.** Nodes and headers are loaded into variables, and the block
  is changed behind them: by a rotation further down the recursion, or through
  another variable for the same map.
* **Long histories.** Removals and insertions mix; the treap after several of
  them has shapes that a test does not produce, and sizes that
  `get_all_key` uses as array indices.
* **A protocol on `recv`.** Neither side reads until a length is complete: one
  `recv` is one command, one `recv` is one frame. That works only because of how
  long the messages are and who waits for whom. Buffers are not cleared, clients
  leave in the middle, and a write to one that has left raises `SIGPIPE`.

The full list, with lines, is in `PROJECT.json` under `hazards`.

## 2. The modules

| module | role | models |
|---|---|---|
| `BlockStore` | abstract | files of blocks that are read, written and counted in one step |
| `BlockFile` | detailed | `file_operation.h`, node and record files; implements `BlockStore` |
| `BlockFileProofs` | proofs | invariants of `BlockFile`; it implements `BlockStore` |
| `BlockPool` | abstract | what the allocator promises: `live` blocks and a `pool` of returned ones |
| `NodeAllocator` | detailed | `memory_operation.h`, implements `BlockPool` |
| `NodeReset` | composition | `clear_all_nodes` together with the calls of `NodeAllocator` |
| `NodeAllocatorProofs` | proofs | invariants of `NodeAllocator`; it implements `BlockPool`; its properties through resets and kills |
| `Encoding` | operators | the layout of blocks, `load` and `save` of every structure, order of keys, names |
| `EncodingProofs` | proofs | what the bytes keep |
| `ListStore` | abstract | what lists promise: named sequences, each call with one moment of effect |
| `DbList` | detailed | `db_list.h` and `queue_node`, implements `ListStore`; takes blocks as `BlockPool` gives them |
| `DbListProofs` | proofs | invariants of `DbList`; it implements `ListStore` |
| `MapStore` | abstract | what maps promise: named partial functions |
| `Treap` | operators | `treap.h`, `get_key` of `db_map.h`, `binary_tree_node` |
| `TreapProofs` | proofs | what each operation of `Treap` makes of a search tree |
| `DbMap` | detailed | `db_map.h` over `Treap`, implements `MapStore` |
| `DbMapProofs` | proofs | invariants of `DbMap`; it implements `MapStore` |
| `Catalog` | abstract | what the registry promises: named maps and lists, each call changes one |
| `Registry` | composition | `db_manage.h` over allocator, maps and lists; implements `Catalog` |
| `RegistryProofs` | proofs | invariants of `Registry`; it implements `Catalog` |
| `Commands` | operators | what a command of the server does to the maps, and what it may answer |
| `Dialogue` | abstract | what a person at a client may rely on |
| `Session` | composition | `server.cpp`, its clients (`client.cpp`) and the streams between; implements `Dialogue` |
| `SessionProofs` | proofs | invariants of `Session`; it implements `Dialogue` |
| `MC...` | instances | symmetry sets, views and bounded versions for TLC |

Each layer takes the one below at its abstract specification: `NodeAllocator`
treats the access to one file as `BlockFile` shows it is, `DbList` takes blocks
from a pool, `Registry` has one step per call of the allocator and takes what a call on
a tree writes before that step, and after it, as one step each, and a command of
`Session` is one step on the database.

Definitions named as *faults* in the detailed modules (they stand before the one
their comment names) are wrong variants of it. No specification uses them.
Putting one in the place of the right definition must make a property fail;
`PROJECT.json` pairs each property of each passing run with one.

### BlockFile

One action per system call of the six functions. `Write`, `Read` and `Lines` open
the file (`Fail` when it is missing), `Create` opens it with `O_CREAT`, `Lock`
waits for `F_SETLKW`, `Unlock` is `F_UNLCK` and `close`.

| code | model |
|---|---|
| the files that exist, their bytes | `there`, `size` (in halves of a block), `half[f][l]` |
| `fcntl` locks | `lock[p]`: mode, file, lines; a count locks all lines |
| the caller's buffer, or the number returned | `buf[p]`, empty where the code leaves the buffer alone |

The kernel does not promise that a `write` of 128 bytes and a `read` of the same
bytes are kept apart, so a block has two halves that are written and read one
after the other; only the lock makes a read whole. A process can be killed
between two system calls, not inside one.

### NodeAllocator

One action per lock, read, write and close of the three calls.

| code | model |
|---|---|
| `node_pointer.dat` (3 integers) | `ptr = [filenum, linenum, trash_size]` |
| `node_trash.dat` | `trash`, a sequence; entries above `trash_size` are stale, as in the file |
| `fcntl` write locks | `ptrLock`, `trashLock` |
| the 12 bytes read, `filenum`/`linenum` of the call | `buf[p]`, `loc[p]` |
| blocks the layers above own | `live`, a history variable: `NewClose` adds, `DelLock` removes |
| a process dies | `Crash(p)`: locks dropped, files kept; `torn` records a death of `delete_node` between its two writes |

`new_node_position` is `NewLock, NewRead, (NewGrow | NewReuse, NewPop,
NewShrink), NewClose`; `delete_node` is `DelLock, DelRead, DelCount,
DelLockTrash, DelPush, DelClose`; `used_memory` is `UsedLock, UsedRead,
UsedClose`. A read past the end of the trash file leaves the buffer as it was:
`ReadEntry` then returns any location. A write past the end leaves a hole.

Assumed: the files exist (the database is installed), so `fopen` succeeds; the
layers above free a block they own, once (`DelLock` takes `b \in live`, and
`DbList`, `DbMap` and `Registry` are where that is checked); `MaxNodeBlockNumber`
is positive (`ConstAssumption`). `used_memory` reads under a lock like the others.

### NodeReset

`clear_all_nodes` is three actions: opening `node_pointer.dat` with "w", which empties
it (`ResetTruncate`), the `fclose` that flushes twelve zeros (`ResetWrite`), and emptying
`node_trash.dat` (`ResetTrash`). None takes an `fcntl` lock; the `flock` in the code
excludes nobody, because no other function uses `flock`. While the file is empty
(`erased`) a read leaves the caller's uninitialised buffer as it was: `ReadNothing` takes
any pointer up to `MaxRead`. `KillReset` ends the reset between any two of the steps.
From `ResetTruncate` to `ResetWrite` the files are `torn`; after it the
properties of the allocator are due again, whatever had been damaged before, also
if the reset died before `ResetTrash` or had to be repeated. A reset starts
while nobody is in a call (`Quiet`), and calls wait until it is over; the server, which
is a single process, keeps to that. The code itself does not enforce it (section 4).

### Encoding

A block is a function from byte positions to bytes; `PutIntToBlock` and the other
conversions are those of `file_operation.h`; `SaveX` and `LoadX` are the `save` and
`load` of queue node, tree node, list header, map header and `db_root.dat`, with the
offsets of the code. `save` starts from an uninitialised buffer, so the block to
write into is a parameter. The three fields of a tree node that the code declares
`int` are the 32 bits that it casts them to.

### DbList

One action per allocator call and per block write; whatever an operation reads
in between is read together with its next write. That is sound because of
`Exclusive`: one operation at a time on one list. The code does not enforce it
(it locks blocks, never lists); the one server process does not need it; a
program that runs several processes on one list must provide it. Different
lists are worked on at the same time, with blocks from one pool.

`disk[b]` has the layout header and node share: two locations and a third field
(size or key). `mem[p]` is the `db_list` variable (`list` is its `self`) with the
`queue_node` it works on (`x`). `pc[p]` names the next write: for a push `alloc,
link, write, save`; for a pop `unlink, free, save`; for update `set, save`; for
release and clear the loop `drop`. A pop of an empty list, or an
index that is not below the size, returns -1 and changes nothing; those calls
are not actions. `Crash(p)` may come before any write; `linked` and `damaged` are
history variables for the lists it leaves half changed. Such a list is not used
any more (again `Exclusive`). `ReleaseHeader` ends `release`; `ClearDone` ends
`clear`, which only `ClearSpec` contains because it breaks the list (section 4).

Blocks come from a finite set `Blocks` (model bound) and `Room` keeps a call
that allocates from starting when every block might be gone: the program's files
grow without a limit.

### Treap and DbMap

`Treap` has one operator per method on `t = [node, root, top]`. The order of
loads and saves is that of the code, so a local copy that is out of date is out
of date in the model: `Climb` compares with the child `node_x` had before the
recursive call, and `Remove` passes the root as its own father. `rand()` is any
member of `Randoms`. Keys are numbers: `KeysAreOrdered` and
`NumbersKeepTheirOrder` of `EncodingProofs` say why that is enough. A block is in
`DOMAIN t.node` from `create` to `release`; TLC reports an error if one is read
outside of that, so use after free is checked by every run.

The recursion of the code is a walk down and what the calls do as they return. Each
walk (`InsertWay`, `SearchWay`, the way to the successor in `RemoveInner`) is the set of
nodes it passes, the least one that holds its start and is closed under the son the code
goes to (`Walk`). What happens on the way down is one update of those nodes (`Plant`,
`Resize`). What happens on the way up is a function on the nodes of the way: `Climb[x]` is
the tree when the call for `x` returns, with the rotations of the calls below it done.
`Below` and `GetKey` are functions on the nodes in the same manner, from the results for
both sons.

`DbMap` has one action per call on a map, through a handle: a `db_map` variable
with its own copy of root and hash_top. `add`, `update`, `drop` and
`get_by_key` load the header first; `get_size`, `get_all_key`, `clear` and
`release` do not. `clear` and `release` of an outdated variable free blocks that
belong to others; they are assumed to be called on a variable that is up to date
(`UpToDate`), as `delete_map` does, which gets a fresh one.

### Registry

`db_manage.h` composed with the layers below. A step is a call of the allocator, a
header that is saved, or what a call that adds to a tree or takes from it writes between
its start and its call of the allocator, or between that and its end. A process can be
killed between any two steps. One process is enough for what the code promises: like
the server it is alone (section 4 says what happens to two).

| code | model |
|---|---|
| the allocator's files | `frontier`, `stack` |
| blocks | `disk[b]`: whose header it is and which nodes hang on it |
| `db_root.dat` | `roots`, the blocks of the two root maps |
| the two root maps | `entries`: id (kind and name) to its node and its value, the header's location |
| `create_map` | `CreateCall, CreateBlock, CreateSave`, then `map1.add`: `AddDescend, AddLeaf, AddHang` |
| `delete_map` | `DeleteCall, ReleaseNode, ..., ReleaseHeader`, then `map1.drop`: `DropUnhang, DropFree, DropSave` |
| a new key or element | `PutCall, PutNew, PutLink` |
| `reset` | `Clear, InstallRoot` twice, `InstallPoint` |
| the call in progress | `job[p]`: the next step, the id, its header, blocks to free or to link |

Which block `drop` frees depends on the shape of the tree: the name's own node, its only
son, or its successor, whose data move into the node of the name. `DropFree` lets it be
the node of any name of the kind and exchanges the two.

A kill inside a call that writes to a tree leaves a tree of which nothing is assumed: the
walk down has counted nodes that are not there, a successor is unlinked and its data not
yet copied, the header on disk does not name the root. Two cases
are safe (`HalfPut`, `HalfNamed`): an insertion into an empty tree, because until its header
is saved it stays empty, and the removal of the only node, until that is freed. So `Crash` keeps
account of the damage: `torn` are the ids whose map or list was
left half freed or half written (`HalfFreed`, `HalfPut`), `ruined` the kinds whose root map
was (`HalfNamed`). `hurt` (a call was cut short since the last install) and `bare` (a reset
between clearing and pointing `db_root.dat`) are history variables too. The properties
speak of what is neither torn nor ruined: what `Owned(id)` still answers for, and the ids
in `Sound`. For lists this is coarse (a push that died did not happen, as `DbList` shows).

Assumed of the callers (`Call`): no call on a database that is not installed, none on an id
that is torn, and none on a name of a kind that is ruined, before a reset. The
code neither notices the damage nor enforces any of this (section 4).

### Session

One server, `Clients`, and two byte streams per connection. A unit of a stream is a
word or the header of a frame; `MaxData` units stand for the 512 bytes that are at once
the size of a command, of a receive buffer and of the largest frame. A command is a verb,
a name, and zeros: the client sends the whole buffer.

| code | model |
|---|---|
| where the server's loop is | `server`: `accept`, `order`, `confirm`, `clear`, `install`, `bye`, or `down` |
| `connectfd`, descriptors not closed | `cur`, `open` |
| `recebuf`, never cleared | `recebuf`; `Overlay` puts what a `recv` brings over the old contents |
| `tmp_out.txt` while `send_file` runs | `out`, the frames still to be written |
| the loop of `client.cpp` | `client[c]`: `off`, `recv`, `type`, `gone`; `rbuf[c]`, `screen[c]` |

`Serve` receives an order and prepares the answer; `Write` sends a frame; `Confirm`,
`Clear` and `Install` are the two halves of `reset`; `Hangup` is `recv <= 0`; `SignOff` is
`exit`, which leaves the descriptor open. `WriteToGone` is a write to a client that has
left: the kernel takes the first, a later one raises `SIGPIPE`, which ends the server.
`Show` is one `recv` of a client and what it prints. Clients can be killed while they wait
or end with `exit`; the server can be killed between any two steps and started again.
`Split` says whether the network may deliver a write in parts: the client and server
rely on it not to (`FALSE`, except in `session_split`). What a command does is in
`Commands`; for the server a command is one step, because nobody else calls the library. So a kill
of the server inside an ordinary command is not looked into here: what that leaves in the
blocks is the subject of `Registry` and, for lists, of `DbList`. The steps of a reset
are apart. `DialogueSpec` maps a session to what the person at
each client sees.

## 3. What the runs check

| run | instance | shows |
|---|---|---|
| `block_store` | 2 processes, a node file and a record file of 2 blocks, 2 contents, kills; 322 000 states | the files implement `BlockStore` (`StoreSpec`): reads are whole (`ReadIsWhole`) and counts exact whoever writes meanwhile, two first writers of a file do not disturb each other; every lock is given back (`LockIsReleased`) |
| `alloc_concurrent` | 2 processes, 2 files of 2 blocks; 42 000 states | the two files and the calls in progress implement `BlockPool` (`MCPoolSpec`); `used_memory` is exact whoever else is in a call (`UsedMemoryExact`); whoever gets the lock gives it back (`LockIsReleased`) |
| `alloc_crash` | the same with kills and resets; 1 010 000 states | no block has two owners (`GrantIsExclusive`), the stack can be trusted (`FreeStackSound`), the count covers the blocks in use (`UsedMemoryCoversLive`), unless a `delete_node` died half way; a reset, also one that is killed and repeated, repairs everything |
| `list_crash` | 2 processes, 4 blocks, 2 values, kills; 1 300 000 states | links agree (`LinksMatch`), no block is shared or used after it is freed (`NothingShared`), and the lists implement `ListStore` (`StoreSpec`): every call takes effect once, at one write; an interrupted push has not happened for `get_by_index`, which goes by the size (`get_all_value` and `show` walk to the end of the links and are not told apart) |
| `list_fair` | 1 process, 4 blocks; 540 000 states | no block is lost (`NoLeak`), every call returns (`CallReturns`) |
| `map_shapes` | 1 map, 4 keys, 3 priorities, 2 values, up to 5 insertions; 134 000 states | search order, ownership of nodes, `get_all_key` in order and inside the array, unique HASH; and each call does and answers what `MapStore` says (`StoreSpec`) |
| `map_shared` | 2 maps, 2 handles, 3 keys, 3 blocks; 131 000 states | maps never share, lose or keep a freed node, and an outdated handle answers like a fresh one where the code loads the header |
| `registry_crash` | two map names and a list name, 6 blocks, kills; 7 120 000 states | a kill damages what the call named, or the names of the kind whose root map it was writing to: every other name leads to its own structure (`NamesResolve`), nothing undamaged is shared or free (`NothingShared`), `size db` is exact until a call is cut short (`SizeExact`) and never below what is undamaged (`SizeCovers`), and the registry implements `Catalog` (`CatalogSpec`) |
| `session` | 2 clients, 1 map name, commands create, drop, reset, y and exit, kills of clients and server; 234 000 states | a client that prompts has printed the whole answer and nothing else (`AnswerWhole`); an order is taken as it was sent, all of it (`OrderIsWhole`, which `session_split` refutes for a network that splits writes); each session is a `Dialogue`; a client that leaves never costs the database (`DisconnectIsHarmless`); the descriptors that stay open are those of `exit` (`HeldConnections`); the client being served gets its prompt or the end of the connection (`Answered`, which leaves out the client told good bye); and when the client being served has left, the next in the queue is served, or the server has ended (`ServerMovesOn`) |
| `list_clear`, `map_heap`, `session_split` | | the findings of section 4 |

**Bounds.** Two files of two blocks are enough to cross from one file to the next, with
a free stack of up to four entries. A third process could only wait for the lock as the
second does; the proofs of section 5 hold for any number. Four blocks give
one list of up to three elements, the shortest with a middle that is no end, or two
lists with two elements between them, next to each other in every order of calls. Four
keys with three priorities give every shape of four nodes that the code can make, removals whose
successor is not the right son itself, and insertions after removals (`MaxTop` is 5).
In `map_shared` all priorities are equal, so the three keys make chains; what matters
there is who owns a block, and `map_shapes` has the shapes. Six blocks hold the root
maps and two names with their headers, or one with two nodes; two map names are the
least for which the removal of one is a danger to another, and the list name is there for the
other kind. `MaxData` is 3, so that a payload is two words: `Good Bye~`
makes one frame that is exactly full, the question of `reset` takes two. A second client
waits in the queue (`Backlog` 0 means one may) while the first is served, is killed or
says exit.
`FileLimit`, `Blocks`, `Room`, `MaxTop`, `MaxRead`, `MaxBlocks`, `MaxNodes`, `MaxLine`,
`MaxData` and `Backlog` are the model's bounds; the guards they appear in are marked.
`MaxTop` is needed because HASH only grows.

`MCDbMap` has a `View` that leaves out `did`, which records the last call and its
answer and which no step reads. The invariants do not read it either, and
the action properties are checked on every transition, so nothing is lost.

**Deadlock** is checked except in `list_crash`, where killed processes leak blocks
until, in four blocks, no call can start any more, and in the session runs, where every
client may have left for good while the server waits in `accept`.

**Fairness.** `FairSpec` of `BlockFile`, `NodeAllocator` and `DbList` assumes weak fairness
of `Step(p)` for each process: a process inside a call is scheduled and goes on, as the
code has no reason to stop there; no process has to start a call. The lock wait
(`F_SETLKW`) is part of the call's first action in `NodeAllocator` and a step of its own in
`BlockFile`, and only enabled when the lock is free; so `LockIsReleased` says that the
holder gives the lock back, not that each waiter gets it: the kernel promises no order
among waiters. `Session` assumes that the server's loop goes on
when it can and that a client in its receive loop reads what has arrived. Nobody has to
connect, to type, to leave or to restart a server.

## 4. Where code and documents disagree

With a run:

* `db_list::clear` (`db_list.h:330`) frees the nodes and resets the variable but
  does not save the header. The list on disk still leads to the freed blocks, and
  the next call works on them. README.md:275 says the emptied list still exists.
  Run `list_clear`.
* `TREAP::insert` (`treap.h:139`) compares the priorities of a node and of the child it
  had before the recursive call. If a rotation lifted another node into that place,
  the new node stops rising. The tree stays a search tree (`map_shapes`) but
  loses the heap order that README.md:149 says keeps it balanced. Run `map_heap`.
* The server takes one `recv` for one command (`server.cpp:121`) and reads it out of a
  buffer that still holds the previous one. If TCP delivers a command in parts, the
  server carries out an order nobody typed. client.md:10-16 shows commands
  answered as typed. Run `session_split`.

Read off the models, without a run of their own:

* `clear_all_nodes` (`memory_operation.h:13`) is not kept apart from other calls by the file
  locks, as README.md:12 says of this layer: it takes `flock`, which `fcntl` locks do not
  notice, and only after `fopen` has emptied the file. A `delete_node` that read the pointer
  file before the reset writes its count back afterwards; the trash file is then emptied,
  and a free block is counted that has no entry. An allocation that is under way returns a block that the
  reset has made free again. With `TRUE` for `Quiet` in `NodeReset`, `alloc_crash` fails
  with the latter.
* `get_size` (`treap.h:34`, README.md:178) reads through the root in the variable without
  loading the header; another variable for the same map makes its answer out of date.
* Two processes in `create_map` (`db_manage.h:150`) with one name both find it missing and
  both make a map; `add` keeps the first, and the second process works on a map without a
  name. With two processes in `registry_crash`, `SizeExact` fails.
* README.md:381 says that `create_map` of a name that exists returns a wild pointer; the
  code returns the map that exists, with its own types.
* A `delete_map` that was killed after it freed the map and before it dropped the name
  (`db_manage.h:170`) can be called again, and frees the same blocks again.
* A kill inside `map1.drop` or `map1.add` damages the root map, and with it names that the
  call did not mention. Dropping the only name frees the root node (`treap.h:210`) before the
  header without it is saved (`db_map.h:91`): the root map on disk then names a free
  block, the next `create_map` is given it as its own header (`db_manage.h:154`), and `add`
  reads that as a tree node. If the node has two sons, its successor is cut out of the tree
  (`treap.h:234`) before its data are in the node (`treap.h:238`): a name that nobody was
  deleting is gone, its map cannot be reached, and no block is given back. `add` counts
  nodes on the way down and turns them on the way up before it saves the root
  (`db_map.h:54`): after a kill sizes, which `get_all_key` takes for array
  indices, may count a node that is not there, and the root on disk may be below another
  node, so that names above it are not found. `Call` in `Registry` excludes what
  follows; `NamesResolve` and `CatalogSpec` show that the other kind is never hit, and that
  a reset repairs it.
* client.md:59-60 shows `Good Bye~` after `exit`. A client that reads exactly `exit` ends
  without sending anything; the server's answer is only reached by the word with something
  behind it, and then the server leaves the connection open while the client goes on
  prompting.
* A write to a client that has left ends the server with `SIGPIPE` (`server.cpp:47`), and
  every client in the queue or to come is refused until somebody starts it again;
  client.md and README.md do not mention that. `ServerMovesOn` names this end as the other
  outcome, it does not exclude it.
* A client that `exit` has told good bye, and that goes on prompting, waits for the
  answer to what it types next until the server process ends: nobody reads from that
  connection, and nobody closes it.
* `queue_node::save` writes its type as four bytes and `load` reads the first of them
  (`node_class.h:135`): it is always false after a load (`QueueTypeIsLost`). Nothing
  reads it.
* `get` of a key that does not exist (`server.cpp:387`) prints a variable that was
  never set.

The allocator is crash-safe with one exception that the properties name rather than hide:
`delete_node` writes the larger count before the entry it counts (`torn`).
After a death between the two, the next allocation pops a stale entry.

## 5. What is proved

All theorems are checked by TLAPS and hold for every value of the constants that the
module's assumption allows.

**Allocator** (`NodeAllocatorProofs`, any set of processes, any block count per file,
any number of files; all about `CrashSpec`, and `Spec` has fewer steps).

* `CtlCorrect`. The *control* invariant `CtlInv`: types; a process inside a call holds
  `node_pointer.dat` and nobody else does; the lock of `node_trash.dat` is held only between
  the lock and the unlock of its holder; and the process in the call has read the
  file as it is, up to the write it made itself. It is inductive without any
  knowledge of what the stack contains.
* `TypeCorrect`: `TypeOK` (a part of `CtlInv`).
* `Inductive`: `IInv`, which is `CtlInv` and, unless `torn`, `Sound`: the free stack
  below its count is inside the file, injective, behind the frontier, and disjoint
  from the blocks in use and from those on their way in or out. `GrantIsExclusive` is
  not inductive: that a granted block is not in use needs the stack to be
  free of blocks in use, and the frontier to be ahead of everything.
* `GrantCorrect` and `FreeStackCorrect`: two of the invariants of `alloc_crash`, for the
  allocator without `clear_all_nodes`; the reset is below.
* `UsedMemoryIsExact` (`Spec`) and `UsedMemoryCovers` (`CrashSpec`): what `used_memory`
  answers. Of the locations behind the frontier some are in use, some are on the stack and
  one may be held by the call in progress; `Lost` is the rest. It is 0 at the start, no step
  of a call changes it, and a kill can only raise it.

The step lemma has one case per action. `Alone` is what makes each case local: by
mutual exclusion every other process is outside of a call, so `Granted`, `Returned` and
`FreeCount` depend on one process only.

`AllocatorImplementsPool` is `Spec => PoolSpec`. The
mapping counts a block as in use from the write of the pointer file that takes it
(`NewGrow`, `NewShrink`) to the push that returns it (`DelPush`); those three actions are
`Alloc` and `Free` of the pool, every other is a stutter. That a grant comes from the
pool when there is one is the fact `trash_size = 0` of `NewGrow` in `CtlInv`. The run
`alloc_concurrent` checks the same over a bounded set of locations.

**Reset** (the second part of `NodeAllocatorProofs`, from `ConstAssumption` and `ResetAssumption`).
`GrantsStayExclusive`, `ResetsRestoreTheStack` and `UsedMemoryStaysCovered` are about
`ResetCrashSpec`, the specification that `alloc_crash` checks: any number of calls,
resets and kills. A call on torn files may pop anything and write anything, so the
invariant of the allocator is lost, and the question is why it comes back. `ResetInv` has
four parts. `Locks` and `Loose` hold always: who holds which lock, and that pointers and
locations have the shape of one, whatever their values. `Secluded`: a process in a reset
is alone, no block is in use, and before its zeros are written the files count as torn.
`Trusted`: unless torn, the pointer file is empty as long as the reset lasts, and `IInv`
and the count of blocks of the allocator (`Balance`) hold otherwise. The pivot is `CleanState`: an empty
pointer file and nobody in a call give `IInv`, whatever `node_trash.dat` still holds,
because the stack is what lies below a count of 0. That is why a reset that died before
`ResetTrash` is harmless. In a trusted state a call is a step of `CrashNext`, and the step
lemmas of the allocator are cited as they are. That no reset begins next to a call is
`Quiet`, a guard of the model; section 4 says what happens without it.

**Block files** (`BlockFileProofs`, from `BlockFileAssumption`, kills included). The
inductive invariant is `IInv == Control /\ Contents`. `Control` is about locks: a process
at work holds the lock it asked for (`Holding`) and locks held at once do not conflict
(`Exclusive`). `Contents` needs it: halves that differ, and an odd file size, are always
under somebody who is writing that block (`Even`), and what a reader has of a block
is still its first half (`Fresh`). `ReadIsWhole` by itself says nothing about a read that
is half done. `TypeCorrect` and `ReadsAreWhole` follow; the second part of the module proves
`FilesImplementStore`: `Spec => StoreSpec`. A write takes effect with its first half,
because nobody can see the block before the second; a read and a count with the step that
completes them.

**Encoding** (`EncodingProofs`, about every byte of every block). `TreeNodeSurvives`,
`MapHeaderSurvives`, `ListHeaderSurvives` and `RootsSurvive`: `load` of what `save` put into
any buffer gives back every field; two fields that overlapped by a byte, or a digit
shifted wrongly, would break them. `QueueTypeIsLost` is the one exception.
`KeysAreOrdered` (a strict total order up to `==`, for both types), `NumbersKeepTheirOrder`
and `AssignedKeysAreEqual` are why keys are numbers elsewhere, and
`NamesAreCut` says when two names become one: if they agree on 32 bytes. The argument is by
position: a field's bytes are what was put there (`IntWritten`, `CharsWritten`), and what is
written later lies behind it (`IntBefore`, `CharsBefore`); `Digits` is the division of a
32-bit number into four bytes and back.

**Lists** (`DbListProofs`; any processes, blocks and values; kills between any two
writes). The variables hold links, and the properties speak of sequences, so the
invariant names for each list the sequence of its blocks, its *chain*: `Inv(ch)`, and
`Explained == \E ch : Inv(ch)` is what every step keeps. A list nobody works on is
`Intact`: linked both ways along its chain, its header says where the chain begins and
ends and how long it is. For a list in a call, `Working` says how far the call has got:
`Pushing`, `Popping`, `Setting` and `Dropping` relate the header on disk, the copy in
`mem[p]`, the links and the chain. The chain changes once in a call: with the header that a
push saves, with the unlinking of a pop (or the freeing of a lone element), and block
by block while `release` frees. `Apart` says who owns what: chains share no block with each
other nor with `Spare(p)`, the block that a call holds besides. It makes a step
local: `Elsewhere` and `Ownership` show once that a step which writes only blocks of
its own list leaves everything the others rely on as it was, and each action
is left with its own list. `Full` (no block in use without an owner) is kept by `Spec`
only: a kill may drop a block.

* `TypeCorrect`, `LinksAgree`, `NothingIsShared`: the invariants of `list_crash`.
* `NoBlockIsLost`: `NoLeak` for `Spec`.
* `ListsImplementStore`: `CrashSpec => StoreSpec`. What can be read of a list is the values
  along its chain (`Reads`), so the moment of effect is the step above that changes the
  chain, or the write of `UpdateSet`; for `release`, the first block it frees. Every other
  step is the call, the return or a stutter, and a kill is `Die`: it loses the list only if a
  pop had begun to change it.

All rest on `ConstAssumption` alone: `NULL` is no block, and there are values.

**Registry** (`RegistryProofs`; any names, number of blocks and entries, kills at every
step, those inside of a call on a root map included). Hypothesis `OneCaller`: one process
calls the registry, as the server does; for
two the properties are false (section 4). The invariant is an *inventory* of the blocks in
use: each is one of the two root maps, in the `Hand` of the call in progress, or `Kept`
by exactly one name, and as long as no call was cut short there are no others. What a name
keeps has two parts, because they are freed at different steps of a deletion and damaged
by different kills: its `Stem`, the node in the root map, and its `Body`, the header and
nodes of its map or list. A torn name keeps no body, a name of a ruined kind no stem: a
kill takes blocks out of the inventory and never puts one in, so what is left is still
disjoint and still in use (`Killed`). That is the whole of the argument for kills, and why
it reaches the names that a kill does not damage and not one step further. `CallInv` adds
what a call relies on in its middle: that the name it creates does not exist yet,
that the header it frees is the one the name leads to, and that blocks are left for it
(`Demand`: a call starts with `Room`). `NewTakes` and `FreeReturns` say what the allocator
does to the inventory, and each action moves one block from one place to another;
`DropFree` moves two, the freed node out and the node of the dropped name to the name
whose node was freed.
`TypeCorrect`, `NamesResolveAlways` and `NothingIsShared` follow; `SizeIsExact` and
`SizeAlwaysCovers` count the inventory. `RegistryImplementsCatalog` is `Spec => CatalogSpec`:
the contents change with the node that `AddHang` writes (`Create`), the header that `DropSave`
saves (`Delete`), the node that `PutLink` links (`Put`) and the clearing of the files (`Reset`).
A kill is `Damage` of the name the call was about, or `Lose` of the names of its kind if the
call was writing to their root map, or nothing. `MaxBlocks >= 2` is assumed because a
database that is installed has its two root maps.

**Session** (`SessionProofs`; any clients, names, backlog and buffer size of at least a
command). At every moment the last answer of a client is cut into three: the text it has
printed, the frames in the stream, and the frames `send_file` still has to write
(`Reading`). `Frames` cuts a text into frames that are all as long as the receive buffer,
except the last one (`FramesOf`, `StreamSize`). That is why a `recv` takes one frame and not
parts of two, and why the client finds the end of the answer: it is an arithmetic fact
about lengths, and the lemmas `PushFrame`, `PopFrame` and `PrintFrame` say what a write, a
`recv` and a print do to the three parts.

* `AnswersArriveWhole`, `OrdersAreTakenWhole`, `DisconnectsAreHarmless` and `TypeCorrect`
  hold under `WholeWrites` (`Split = FALSE`), the hypothesis that `session_split` shows to
  be necessary.
* `OnlyExitsStayOpen` needs none (`HeldInv`): the descriptors do not depend on what the
  streams deliver.
* `SessionsAreDialogues`: `CrashSpec => DialogueSpec`, under `WholeWrites`. The steps of
  effect are few: a connection is accepted (`Greet`), a command is typed (`Ask`), taken
  from the stream or, for a confirmed reset, followed by the root maps (`Do`), the root
  maps are taken away (`Wipe`), the last frame is printed (`Read`), the client or its
  connection goes (`Leave`), the server drops a question it asked (`Withdraw`); every other
  step is a stutter. What the mapping needs besides `IInv` is `Awaited`: *no client whose
  connection is open waits for nothing*: its command is in the stream, or frames of its
  answer are on the way, or the server is busy with its reset. Otherwise a server
  that dies could change, for several clients in one step, what each is shown to be doing.
  It rests on `HeldInv`: a client that `exit` left behind has been told good bye,
  which is one frame, so none of it is missing when the server turns to the next client.

`CommandsAssumption` says that names are
finitely many, as blocks are, and that a database without root maps is told from one with
them.

**Trees** (`TreapProofs`; trees of any size and shape, from `ConstAssumption` of `DbMap`:
`NULL` is no block, keys are integers, what `rand()` returns is a natural number). `Tree(t, N, sub, up)` says that the
nodes `N` are the search tree of `t`: `sub[x]` are the nodes below `x`, `up[x]` is its father.
Neither is stored by the code; given them, everything is a condition on one node and its
sons. `Branching` (`sub` of a node is itself and the disjoint `sub` of its sons), `Fathered` (no
node hangs on two fathers), `Sized` (size is the cardinality of `sub`), `Ordered`, and `Hashed`
(HASH is at most `hash_top`, and no two are equal). Each operation comes in two
steps. One lemma says what the operator writes, block by block (`RotateIs`, `PlantIs`,
`RemoveLeafIs`, ...); another that a tree with those changes is a tree, with `sub` and `up` named
(`RotatedIsTree`, `PlantedIsTree`, `CutIsTree`, `MergedIsTree`). The results:

* `FindIs`: the walk reaches the node with the key if there is one, and null otherwise.
* `InsertIs`: one node more, with the data given; every other keeps key and value; a tree
  again. The invariant of the way up (`Climbing`) holds after each return: nothing
  has been lifted over the nodes whose calls have not returned, so the father that is
  passed to `right_rot` is still the father. That the child `node_x` remembers may not be the
  son any more (the finding of section 4) is why the decision to rotate can
  be wrong; the lemma shows that rotating and not rotating both leave a search tree, and that the
  side that is rotated is never empty.
* `RemoveIs`: the pairs of key and value that are left are the ones of before without the
  key. Three cases: a leaf is cut off, a node takes over the block of its only son
  (`Merged`: a different block is freed than the one that was found), and a node with two
  sons takes over key and value of its successor, whose block is cut out.
* `ReleaseNodeIs`: what is freed is the tree, each node of it.
* `KeysAreListed`: `get_key` fills the indices from 0 to the number of nodes with the keys in order.

Induction: the theorems of the library that take a predicate as a parameter cannot be
instantiated by the provers, so it is done with sets. `LeastExists` (from the library's
`WFMin` on natural numbers) gives a least counterexample, `UpwardInduction` and
`DownwardInduction` carry that over to sets of nodes, measured by the cardinality of `sub`. That a
function defined by recursion on nodes exists at all is a theorem too (`Recursion`): if each
value depends on smaller arguments only, there is one. The stored sizes are that measure
(`Graded`), because a son's is smaller; with it `Below`, `GetKey` and `Climb` are what their
equations say.

**Maps** (`DbMapProofs`; any maps, variables, blocks, keys and values, and any number of
insertions). `Inv`: there are `own[m]`, the blocks of map `m`, that form a tree under the root
in its header, are pairwise disjoint, and are together all the blocks in use (`Grove`); and the
`db_map` variables have their type. About what is *in* a variable it says nothing:
the calls that load do not need it, the ones that do not load are called on a variable
that is up to date. A call exchanges one tree (`Regrown`) and leaves every block outside of
it as it was, so `RegrownIsGrove` is the frame argument for all calls.

* `TypeCorrect`, `KeysInOrder`, `OneOwner`, `AllKeysListed`, `HashesDiffer`: the five
  invariants of `map_shapes`, each a consequence of `Inv` (`Invariance`).
* `MapsImplementStore`: `Spec => StoreSpec`. A map is a function because keys are unique
  in a tree (`HoldsOne`); `AddIs`, `DropIs`, `UpdateIs` and `ClearIs` turn the changes of nodes
  into changes of that function, and for `get_by_key` and the two calls that may
  find nothing, `FindIs` says that what was found is what the map holds.

**Only model-checked**: all liveness (TLAPS has no `ENABLED`). Every invariant and every
refinement that a passing run checks is a theorem.
The properties of the three violation runs are refuted, not proved; `OrderIsWhole` is a
theorem where writes stay whole.

## 6. Not modelled

* `load_configuration`, socket set-up, terminal input: start-up I/O without state that matters.
* The `record` twins of the allocator (`memory_operation.h` 23-37 and 173-304): no caller,
  and the same code on other files. The record twins of the block files are in `BlockFile`.
* What a half-written tree looks like (`db_map.h:54`). A call on a map is one step in `DbMap`.
  `Registry` interrupts calls on trees, but knows no shapes: it assumes nothing of a tree
  that a kill left half written, and the properties end where such a tree begins. The code
  does not recover one, and using it may follow freed blocks (section 4).
* In the server: the commands on lists, whose handlers repeat those on maps; `show` with an
  expression that is not valid, which throws; the contents of `show map`.
* `uprint` with other control letters than "s" and `uscan`: no caller. The terminator
  that `uprint` writes one past a full buffer is the business of the caller's frame.
* Two processes on one list (`db_list.h:48`) or in the registry at once: the code breaks,
  and no document promises otherwise.

## 7. Plan

Done: block files, allocator with reset, encoding, lists, trees and maps, registry,
server and clients; proofs of the invariants of all of them, and that each implements the
abstract specification it is checked against. What would come next:

1. A treap whose calls are a sequence of block writes, to say what a kill in the middle
   of `add` or `drop` leaves behind and what of it a later call could still use. `Registry`
   counts all of it as lost (section 6).
2. `Registry` with its root maps taken from `MapStore` instead of the function
   `entries`, so that the two layers are composed by INSTANCE rather than by argument.
