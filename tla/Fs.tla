--------------------------------- MODULE Fs ---------------------------------
(***************************************************************************)
(* The file system: blocks, inodes, the inode cache, directories and path  *)
(* names of fs.c, and the calls of sysfile.c and file.c on them, made by   *)
(* several processes, with crashes.                                        *)
(*                                                                         *)
(* Grain.  A call takes one step from the acquisition of an inode's sleep  *)
(* lock to the next; a process that waits for a lock is one whose next     *)
(* step is not enabled.  iput() is three steps.  The log is what Log       *)
(* establishes: a crash leaves the disk as it was when the last            *)
(* transaction group committed.                                            *)
(*                                                                         *)
(* A directory is a function from names to inode numbers, 0 for no entry;  *)
(* ".." is a field, "." is left out.                                       *)
(***************************************************************************)
EXTENDS Integers, Sequences, SequencesExt, FiniteSets, FiniteSetsExt

CONSTANTS
    Proc,
    Name,               \* names of directory entries
    Calls,              \* the calls processes make
    NINODES, NBLOCKS,
    NDIRECT, NINDIRECT,
    MaxCalls,           \* bound: calls made in one run of the system
    None

Inum == 1..NINODES
Block == 1..NBLOCKS
ROOTINO == 1

NoEntries == [n \in Name |-> 0]
FreeInode == [type |-> "free", nlink |-> 0, ents |-> NoEntries, up |-> 0,
              addrs |-> <<>>, indirect |-> 0]
Fresh == [FreeInode EXCEPT !.type = "dir"]

VARIABLES
    dinode, used,       \* inodes and bitmap on disk, as the log has them
    committed,          \* the same, as a crash leaves them
    mem,                \* the inode cache: ref, valid, lock and the inode
    th,                 \* the call each process is in
    fd, cwd,            \* its open file, if any, and its directory
    calls, panic

vars == <<dinode, used, committed, mem, th, fd, cwd, calls, panic>>

Idle == [at |-> "idle", call |-> None, path |-> <<>>, par |-> FALSE, cur |-> 0,
         dp |-> 0, ip |-> 0, puts |-> <<>>, put |-> "no"]

\* A disk with a file f and an empty directory d, as mkfs, mkdir and writes
\* leave it.
Disk0(f) ==
    [i \in Inum |->
        CASE i = 1 -> [Fresh EXCEPT !.nlink = 2, !.up = 1, !.addrs = <<1>>,
                                    !.ents = [NoEntries EXCEPT !["d"] = 2, !["f"] = 3]]
          [] i = 2 -> [Fresh EXCEPT !.nlink = 1, !.up = 1, !.addrs = <<2>>]
          [] i = 3 -> f
          [] OTHER -> FreeInode]

SmallFile == [FreeInode EXCEPT !.type = "file", !.nlink = 1, !.addrs = <<3>>]
BigFile == [SmallFile EXCEPT !.addrs = <<3, 5>>, !.indirect = 4]

Uncached == [ref |-> 0, valid |-> FALSE, lock |-> None, d |-> FreeInode]
Booted == [i \in Inum |-> IF i = ROOTINO THEN [Uncached EXCEPT !.ref = Cardinality(Proc)]
                                         ELSE Uncached]

Init ==
    /\ \/ used = 1..3 /\ dinode = Disk0(SmallFile)
       \/ used = 1..5 /\ dinode = Disk0(BigFile)
    /\ committed = <<dinode, used>>
    /\ mem = Booted
    /\ th = [p \in Proc |-> Idle]
    /\ fd = [p \in Proc |-> None] /\ cwd = [p \in Proc |-> ROOTINO]
    /\ calls = 0 /\ panic = ""

----------------------------------------------------------------------------
(* The inode cache                                                         *)

\* iget(), and idup() of an inode that has references.
Iget(m, i) ==
    IF m[i].ref = 0 THEN [m EXCEPT ![i].ref = 1, ![i].valid = FALSE]
                    ELSE [m EXCEPT ![i].ref = @ + 1]

\* The inode as ilock() leaves it, and whether its lock is free.
Ip(i) == IF mem[i].valid THEN mem[i].d ELSE dinode[i]
Ilock(i) == mem[i].lock = None
Loaded(m, i) == [m EXCEPT ![i].valid = TRUE, ![i].d = Ip(i)]

\* The cache after iupdate() of inode i to d, or with its lock taken.
Updated(m, i, d) == [m EXCEPT ![i].valid = TRUE, ![i].d = d]
Locked(m, i, p) == [m EXCEPT ![i].lock = p]

\* balloc() takes the first free block, ialloc() the first free inode.
Balloc(free) == Min(free)
FreeInums == {i \in Inum : dinode[i].type = "free"}
Ialloc(type) == [dinode EXCEPT ![Min(FreeInums)] = [FreeInode EXCEPT !.type = type]]

\* The blocks of an inode, which itrunc() gives to bfree().
Blocks(d) == ToSet(d.addrs) \cup ({d.indirect} \ {0})
Itrunc(d) == used \ Blocks(d)

\* dirlookup() and dirlink().
Dirlookup(d, name) == d.ents[name]
Dirlink(d, name, i) == [d EXCEPT !.ents[name] = i]

At(p, label) == panic = "" /\ th[p].at = label /\ th[p].puts = <<>>

\* The thread goes to a label with inodes to iput() on the way.
Goto(p, label, puts) ==
    th' = [th EXCEPT ![p] = [(IF label = "end" THEN Idle ELSE @)
                             EXCEPT !.at = label, !.puts = puts]]

\* Variant: open files do not count.
LastRef_Ignored(i) == mem[i].valid /\ mem[i].d.nlink = 0

\* iput(): no links, and this is the only reference.
LastRef(i) == mem[i].valid /\ mem[i].d.nlink = 0 /\ mem[i].ref = 1

\* iput() as far as iupdate(), with itrunc(); or its check alone.
IputFree(p) ==
    LET i == Head(th[p].puts) IN
    /\ panic = "" /\ th[p].puts # <<>> /\ th[p].put = "no" /\ Ilock(i)
    /\ \/ /\ LastRef(i)
          /\ used' = Itrunc(mem[i].d)
          /\ dinode' = [dinode EXCEPT ![i] = FreeInode]
          /\ mem' = [mem EXCEPT ![i].d = FreeInode, ![i].lock = p]
          /\ th' = [th EXCEPT ![p].put = "clear"]
       \/ /\ ~LastRef(i)
          /\ th' = [th EXCEPT ![p].put = "drop"]
          /\ UNCHANGED <<used, dinode, mem>>
    /\ UNCHANGED <<committed, fd, cwd, calls, panic>>

\* Variant: the entry stays valid.
IputClear_Valid(p) ==
    /\ panic = "" /\ th[p].put = "clear"
    /\ mem' = [mem EXCEPT ![Head(th[p].puts)].lock = None]
    /\ th' = [th EXCEPT ![p].put = "drop"]
    /\ UNCHANGED <<dinode, used, committed, fd, cwd, calls, panic>>

\* ip->valid = 0 and releasesleep().
IputClear(p) ==
    /\ panic = "" /\ th[p].put = "clear"
    /\ mem' = [mem EXCEPT ![Head(th[p].puts)].valid = FALSE,
                          ![Head(th[p].puts)].lock = None]
    /\ th' = [th EXCEPT ![p].put = "drop"]
    /\ UNCHANGED <<dinode, used, committed, fd, cwd, calls, panic>>

\* ip->ref--.
IputDrop(p) ==
    /\ panic = "" /\ th[p].put = "drop"
    /\ mem' = [mem EXCEPT ![Head(th[p].puts)].ref = @ - 1]
    /\ th' = [th EXCEPT ![p].put = "no", ![p].puts = Tail(@)]
    /\ UNCHANGED <<dinode, used, committed, fd, cwd, calls, panic>>

----------------------------------------------------------------------------
(* Calls                                                                   *)

Parent(call) == call.op \in {"create", "mkdir", "mknod", "unlink"}

\* The label a lookup that succeeds goes to, and one that fails.
Found(t) == IF t.at = "namex2" THEN "link_dp"
            ELSE IF t.call.op \in {"create", "mkdir", "mknod"} THEN "create" ELSE t.call.op
Missing(t) == IF t.at = "namex2" THEN "link_bad" ELSE "end"

\* begin_op() and the start of the call.
Begin(p, call) ==
    LET start == IF call.relative THEN cwd[p] ELSE ROOTINO IN
    /\ At(p, "idle") /\ calls < MaxCalls
    /\ calls' = calls + 1
    /\ \/ /\ call.op \in {"open", "create", "mkdir", "mknod", "unlink", "link", "chdir"}
          /\ mem' = Iget(mem, start)
          /\ th' = [th EXCEPT ![p] = [Idle EXCEPT !.at = "namex", !.call = call,
                        !.path = call.path, !.par = Parent(call), !.cur = start]]
          /\ UNCHANGED fd
       \/ /\ call.op \in {"read", "write"} /\ fd[p] # None
          /\ call.op = "write" => dinode[fd[p].ip].type # "dir"  \* open for reading only
          /\ th' = [th EXCEPT ![p] = [Idle EXCEPT !.at = call.op, !.call = call]]
          /\ UNCHANGED <<mem, fd>>
       \/ /\ call.op = "close" /\ fd[p] # None
          /\ th' = [th EXCEPT ![p] = [Idle EXCEPT !.at = "end", !.puts = <<fd[p].ip>>]]
          /\ fd' = [fd EXCEPT ![p] = None]
          /\ UNCHANGED mem
    /\ UNCHANGED <<dinode, used, committed, cwd, panic>>

\* No other process is in a transaction.
Alone(p) == \A q \in Proc \ {p} : th[q].at \in {"idle", "read"}

\* end_op(): the last one commits.
End(p) ==
    /\ At(p, "end")
    /\ th' = [th EXCEPT ![p] = Idle]
    /\ committed' = IF Alone(p) THEN <<dinode, used>> ELSE committed
    /\ UNCHANGED <<dinode, used, mem, fd, cwd, calls, panic>>

\* A turn of the loop of namex(), with dirlookup().
Namex(p) ==
    LET t == th[p]
        i == t.cur
        n == Dirlookup(Ip(i), Head(t.path))
        stop == t.par /\ Len(t.path) = 1
        found == IF Len(t.path) = 1 THEN Found(t) ELSE t.at
    IN
    /\ At(p, "namex") \/ At(p, "namex2")
    /\ Ilock(i)
    /\ \/ /\ Ip(i).type # "dir" \/ (~stop /\ n = 0)
          /\ mem' = Loaded(mem, i)
          /\ Goto(p, Missing(t), <<i>>)
       \/ /\ Ip(i).type = "dir" /\ stop
          /\ mem' = Loaded(mem, i)
          /\ Goto(p, Found(t), <<>>)
       \/ /\ Ip(i).type = "dir" /\ ~stop /\ n # 0
          /\ mem' = Iget(Loaded(mem, i), n)
          /\ th' = [th EXCEPT ![p] = [@ EXCEPT !.at = found, !.puts = <<i>>,
                                      !.cur = n, !.path = Tail(@)]]
    /\ UNCHANGED <<dinode, used, committed, fd, cwd, calls, panic>>

\* filealloc(), fdalloc() and the rest of sys_open() for inode i, which is
\* locked; a process has room for one open file.
OpenFile(p, i, m) ==
    /\ mem' = Locked(m, i, None)
    /\ \/ /\ fd[p] = None
          /\ fd' = [fd EXCEPT ![p] = [ip |-> i, off |-> 0]]
          /\ Goto(p, "end", <<>>)
       \/ /\ fd[p] # None
          /\ Goto(p, "end", <<i>>)
          /\ UNCHANGED fd

\* sys_open() after namei().
Open(p) ==
    LET i == th[p].cur IN
    /\ At(p, "open") /\ Ilock(i)
    /\ \/ /\ Ip(i).type = "dir" /\ th[p].call.write
          /\ mem' = Loaded(mem, i)
          /\ Goto(p, "end", <<i>>) /\ UNCHANGED fd
       \/ /\ ~(Ip(i).type = "dir" /\ th[p].call.write)
          /\ OpenFile(p, i, Loaded(mem, i))
    /\ UNCHANGED <<dinode, used, committed, cwd, calls, panic>>

\* create() with dp locked: the name exists, or ialloc().
Create(p) ==
    LET dp == th[p].cur
        old == Dirlookup(Ip(dp), Head(th[p].path))
        type == CASE th[p].call.op = "create" -> "file"
                  [] th[p].call.op = "mkdir" -> "dir"
                  [] th[p].call.op = "mknod" -> "dev"
    IN
    /\ At(p, "create") /\ Ilock(dp)
    /\ \/ /\ old # 0
          /\ mem' = Iget(Loaded(mem, dp), old)
          /\ th' = [th EXCEPT ![p] = [@ EXCEPT !.at = "create_old", !.cur = old,
                                               !.puts = <<dp>>]]
          /\ UNCHANGED <<dinode, panic>>
       \/ /\ old = 0 /\ FreeInums # {}
          /\ dinode' = Ialloc(type)
          /\ mem' = Iget(Locked(Loaded(mem, dp), dp, p), Min(FreeInums))
          /\ th' = [th EXCEPT ![p] = [@ EXCEPT !.at = "create_ip", !.dp = dp,
                                               !.cur = Min(FreeInums)]]
          /\ UNCHANGED panic
       \/ /\ old = 0 /\ FreeInums = {} /\ panic' = "ialloc: no inodes"
          /\ UNCHANGED <<dinode, mem, th>>
    /\ UNCHANGED <<used, committed, fd, cwd, calls>>

\* create() of a name that exists: only open() of a file goes on.
CreateOld(p) ==
    LET i == th[p].cur IN
    /\ At(p, "create_old") /\ Ilock(i)
    /\ \/ /\ th[p].call.op = "create" /\ Ip(i).type = "file"
          /\ OpenFile(p, i, Loaded(mem, i))
       \/ /\ ~(th[p].call.op = "create" /\ Ip(i).type = "file")
          /\ mem' = Loaded(mem, i)
          /\ Goto(p, "end", <<i>>) /\ UNCHANGED fd
    /\ UNCHANGED <<dinode, used, committed, cwd, calls, panic>>

\* create() with dp and the new inode locked: links, dots and dirlink().
CreateIp(p) ==
    LET i == th[p].cur
        dp == th[p].dp
        dir == Ip(i).type = "dir"
        b == Balloc(Block \ used)
        new == IF dir THEN [Ip(i) EXCEPT !.nlink = 1, !.up = dp, !.addrs = <<b>>]
                      ELSE [Ip(i) EXCEPT !.nlink = 1]
        dpn == Dirlink([Ip(dp) EXCEPT !.nlink = IF dir THEN @ + 1 ELSE @],
                       Head(th[p].path), i)
    IN
    /\ At(p, "create_ip") /\ Ilock(i)
    /\ \/ /\ dir => used # Block
          /\ dinode' = [dinode EXCEPT ![i] = new, ![dp] = dpn]
          /\ used' = IF dir THEN used \cup {b} ELSE used
          /\ mem' = Locked(Locked(Updated(Updated(mem, i, new), dp, dpn), dp, None), i, p)
          /\ Goto(p, "create_done", <<dp>>) /\ UNCHANGED panic
       \/ /\ dir /\ used = Block /\ panic' = "balloc: out of blocks"
          /\ UNCHANGED <<dinode, used, mem, th>>
    /\ UNCHANGED <<committed, fd, cwd, calls>>

\* The caller of create(), which has the new inode locked.
CreateDone(p) ==
    LET i == th[p].cur IN
    /\ At(p, "create_done")
    /\ \/ th[p].call.op = "create" /\ OpenFile(p, i, mem)
       \/ /\ th[p].call.op # "create"
          /\ mem' = Locked(mem, i, None)
          /\ Goto(p, "end", <<i>>) /\ UNCHANGED fd
    /\ UNCHANGED <<dinode, used, committed, cwd, calls, panic>>

\* sys_unlink() with dp locked.
Unlink(p) ==
    LET dp == th[p].cur
        old == Dirlookup(Ip(dp), Head(th[p].path))
    IN
    /\ At(p, "unlink") /\ Ilock(dp)
    /\ \/ /\ old = 0
          /\ mem' = Loaded(mem, dp) /\ Goto(p, "end", <<dp>>)
       \/ /\ old # 0
          /\ mem' = Iget(Locked(Loaded(mem, dp), dp, p), old)
          /\ th' = [th EXCEPT ![p] = [@ EXCEPT !.at = "unlink_ip", !.dp = dp,
                                               !.cur = old]]
    /\ UNCHANGED <<dinode, used, committed, fd, cwd, calls, panic>>

\* isdirempty(), for a directory.
Removable(d) == d.type = "dir" => d.ents = NoEntries

\* sys_unlink() with dp and ip locked.
UnlinkIp(p) ==
    LET i == th[p].cur
        dp == th[p].dp
        dpn == [Ip(dp) EXCEPT !.nlink = IF Ip(i).type = "dir" THEN @ - 1 ELSE @,
                              !.ents[Head(th[p].path)] = 0]
    IN
    /\ At(p, "unlink_ip") /\ Ilock(i)
    /\ \/ /\ ~Removable(Ip(i))
          /\ mem' = Loaded(mem, i)
          /\ Goto(p, "unlink_bad", <<i>>) /\ UNCHANGED dinode
       \/ /\ Removable(Ip(i))
          /\ dinode' = [dinode EXCEPT ![dp] = dpn]
          /\ mem' = Locked(Locked(Loaded(Updated(mem, dp, dpn), i), dp, None), i, p)
          /\ Goto(p, "unlink_done", <<dp>>)
    /\ UNCHANGED <<used, committed, fd, cwd, calls, panic>>

UnlinkBad(p) ==
    /\ At(p, "unlink_bad")
    /\ mem' = Locked(mem, th[p].dp, None)
    /\ Goto(p, "end", <<th[p].dp>>)
    /\ UNCHANGED <<dinode, used, committed, fd, cwd, calls, panic>>

\* ip->nlink--, iupdate(ip), iunlockput(ip).
UnlinkDone(p) ==
    LET i == th[p].cur
        d == [Ip(i) EXCEPT !.nlink = @ - 1]
    IN
    /\ At(p, "unlink_done")
    /\ dinode' = [dinode EXCEPT ![i] = d]
    /\ mem' = Locked(Updated(mem, i, d), i, None)
    /\ Goto(p, "end", <<i>>)
    /\ UNCHANGED <<used, committed, fd, cwd, calls, panic>>

\* Variant: the link is counted only when it is there.
Linked_Later(d) == d

\* The inode sys_link() writes before it makes the entry.
Linked(d) == [d EXCEPT !.nlink = @ + 1]

\* sys_link() with the old file locked, and the start of nameiparent(new).
Link(p) ==
    LET i == th[p].cur
        start == IF th[p].call.relative THEN cwd[p] ELSE ROOTINO
    IN
    /\ At(p, "link") /\ Ilock(i)
    /\ \/ /\ Ip(i).type = "dir"
          /\ mem' = Loaded(mem, i) /\ Goto(p, "end", <<i>>) /\ UNCHANGED dinode
       \/ /\ Ip(i).type # "dir"
          /\ dinode' = [dinode EXCEPT ![i] = Linked(Ip(i))]
          /\ mem' = Iget(Updated(mem, i, Linked(Ip(i))), start)
          /\ th' = [th EXCEPT ![p] = [@ EXCEPT !.at = "namex2", !.ip = i, !.cur = start,
                                      !.path = th[p].call.new, !.par = TRUE]]
    /\ UNCHANGED <<used, committed, fd, cwd, calls, panic>>

\* sys_link() with dp locked: dirlink(), which may find the name taken.
LinkDp(p) ==
    LET dp == th[p].cur
        n == Head(th[p].path)
        d == Dirlink(Ip(dp), n, th[p].ip)
        old == Dirlookup(Ip(dp), n)
    IN
    /\ At(p, "link_dp") /\ Ilock(dp)
    /\ \/ /\ old # 0
          /\ mem' = Iget(Locked(Loaded(mem, dp), dp, p), old)
          /\ Goto(p, "link_taken", <<old>>) /\ UNCHANGED dinode
       \/ /\ old = 0
          /\ dinode' = [dinode EXCEPT ![dp] = d]
          /\ mem' = Updated(mem, dp, d)
          /\ Goto(p, "end", <<dp, th[p].ip>>)
    /\ UNCHANGED <<used, committed, fd, cwd, calls, panic>>

LinkTaken(p) ==
    /\ At(p, "link_taken")
    /\ mem' = Locked(mem, th[p].cur, None)
    /\ Goto(p, "link_bad", <<th[p].cur>>)
    /\ UNCHANGED <<dinode, used, committed, fd, cwd, calls, panic>>

\* bad: of sys_link().
LinkBad(p) ==
    LET i == th[p].ip
        d == [Ip(i) EXCEPT !.nlink = @ - 1]
    IN
    /\ At(p, "link_bad") /\ Ilock(i)
    /\ dinode' = [dinode EXCEPT ![i] = d]
    /\ mem' = Updated(mem, i, d)
    /\ Goto(p, "end", <<i>>)
    /\ UNCHANGED <<used, committed, fd, cwd, calls, panic>>

Chdir(p) ==
    LET i == th[p].cur IN
    /\ At(p, "chdir") /\ Ilock(i)
    /\ mem' = Loaded(mem, i)
    /\ \/ /\ Ip(i).type # "dir"
          /\ Goto(p, "end", <<i>>) /\ UNCHANGED cwd
       \/ /\ Ip(i).type = "dir"
          /\ Goto(p, "end", <<cwd[p]>>)
          /\ cwd' = [cwd EXCEPT ![p] = i]
    /\ UNCHANGED <<dinode, used, committed, fd, calls, panic>>

----------------------------------------------------------------------------
(* File contents                                                           *)

\* The blocks bmap() has to allocate to reach block bn of the file.
Needs(d, bn) ==
    (IF bn < Len(d.addrs) THEN 0 ELSE 1)
    + (IF bn >= NDIRECT /\ d.indirect = 0 THEN 1 ELSE 0)

\* The inode with them: the indirect block comes first.
Bmap(d, bn, free) ==
    LET ind == bn >= NDIRECT /\ d.indirect = 0
        b == Balloc(IF ind THEN free \ {Balloc(free)} ELSE free)
    IN [d EXCEPT !.indirect = IF ind THEN Balloc(free) ELSE @,
                 !.addrs = IF bn < Len(@) THEN @ ELSE Append(@, b)]

\* writei() does not refuse block bn.
Writei(d, bn) == d.type = "file" /\ bn < NDIRECT + NINDIRECT

\* A chunk of filewrite(): writei() of one block at the offset.
Write(p) ==
    LET i == fd[p].ip
        bn == fd[p].off
        free == Block \ used
        d == Bmap(Ip(i), bn, free)
    IN
    /\ At(p, "write") /\ Ilock(i)
    /\ \/ /\ ~Writei(Ip(i), bn)
          /\ mem' = Loaded(mem, i) /\ Goto(p, "end", <<>>)
          /\ UNCHANGED <<dinode, used, fd, panic>>
       \/ /\ Writei(Ip(i), bn) /\ Needs(Ip(i), bn) <= Cardinality(free)
          /\ dinode' = [dinode EXCEPT ![i] = d]
          /\ used' = used \cup Blocks(d)
          /\ mem' = Updated(mem, i, d)
          /\ fd' = [fd EXCEPT ![p].off = @ + 1]
          /\ Goto(p, "end", <<>>) /\ UNCHANGED panic
       \/ /\ Writei(Ip(i), bn) /\ Needs(Ip(i), bn) > Cardinality(free)
          /\ panic' = "balloc: out of blocks"
          /\ UNCHANGED <<dinode, used, mem, fd, th>>
    /\ UNCHANGED <<committed, cwd, calls>>

\* fileread() and filestat(): the inode is locked and looked at.
Read(p) ==
    /\ At(p, "read") /\ Ilock(fd[p].ip)
    /\ mem' = Loaded(mem, fd[p].ip)
    /\ th' = [th EXCEPT ![p] = Idle]
    /\ UNCHANGED <<dinode, used, committed, fd, cwd, calls, panic>>

\* Power fails; recover_from_log() and iinit() find the committed disk.
Crash ==
    /\ dinode' = committed[1] /\ used' = committed[2]
    /\ mem' = Booted /\ th' = [p \in Proc |-> Idle]
    /\ fd' = [p \in Proc |-> None] /\ cwd' = [p \in Proc |-> ROOTINO]
    /\ panic' = ""
    /\ UNCHANGED <<committed, calls>>

Step(p) ==
    \/ IputFree(p) \/ IputClear(p) \/ IputDrop(p)
    \/ Namex(p) \/ End(p) \/ Open(p)
    \/ Create(p) \/ CreateOld(p) \/ CreateIp(p) \/ CreateDone(p)
    \/ Unlink(p) \/ UnlinkIp(p) \/ UnlinkBad(p) \/ UnlinkDone(p)
    \/ Link(p) \/ LinkDp(p) \/ LinkTaken(p) \/ LinkBad(p)
    \/ Chdir(p) \/ Write(p) \/ Read(p)

Next ==
    \/ \E p \in Proc, call \in Calls : Begin(p, call)
    \/ \E p \in Proc : Step(p)
    \/ Crash

Spec == Init /\ [][Next]_vars

----------------------------------------------------------------------------
(* Properties                                                              *)

\* Entries for inode i on a disk; ".." of a directory that has one counts for
\* its parent.
EntriesOf(disk, i) ==
    {x \in Inum \X Name : disk[x[1]].type = "dir" /\ disk[x[1]].ents[x[2]] = i}
Links(disk, i) ==
    Cardinality(EntriesOf(disk, i))
    + Cardinality({j \in Inum : disk[j].type = "dir" /\ disk[j].up = i
                                 /\ EntriesOf(disk, j) # {}})

\* What a crash leaves is a file system: every entry leads to an inode, no
\* inode has more entries than nlink says, no block belongs to two inodes, and
\* the bitmap has exactly the blocks that belong to one.
RecoversConsistent ==
    LET disk == committed[1] IN
    /\ \A i \in Inum :
        /\ disk[i].type = "dir" =>
             \A n \in Name : disk[i].ents[n] # 0 => disk[disk[i].ents[n]].type # "free"
        /\ Links(disk, i) <= disk[i].nlink
        /\ \A j \in Inum \ {i} : Blocks(disk[i]) \cap Blocks(disk[j]) = {}
    /\ committed[2] = UNION {Blocks(disk[i]) : i \in Inum}

\* The inode whose lock process p takes next.
Wants(p) ==
    LET t == th[p] IN
    CASE t.puts # <<>> -> IF t.put = "no" THEN Head(t.puts) ELSE 0
      [] t.at \in {"idle", "end", "create_done", "unlink_bad", "unlink_done",
                   "link_taken"} -> 0
      [] t.at \in {"read", "write"} -> fd[p].ip
      [] t.at = "link_bad" -> t.ip
      [] OTHER -> t.cur

\* No panic of fs.c or sysfile.c is reached that the disk's size does not
\* cause: ilock() finds an allocated inode that is referenced, sys_unlink() a
\* link to remove, itrunc() blocks that are in use.
NoPanic ==
    \A p \in Proc :
        LET i == Wants(p) IN
        panic = "" /\ i # 0 /\ Ilock(i) =>
            /\ mem[i].ref >= 1
            /\ Ip(i).type # "free"
            /\ th[p].at = "unlink_ip" /\ th[p].puts = <<>> => Ip(i).nlink >= 1
            /\ Blocks(Ip(i)) \subseteq used

Count(s, i) == Cardinality({k \in DOMAIN s : s[k] = i})

\* References process p has to inode i.
Holds(p, i) ==
    LET t == th[p] IN
    Count(t.puts, i) + Count(<<cwd[p]>>, i)
    + (IF fd[p] # None /\ fd[p].ip = i THEN 1 ELSE 0)
    + (IF t.at \in {"idle", "end", "read", "write", "unlink_bad", "link_bad"} THEN 0
       ELSE Count(<<t.cur>>, i))
    + (IF t.at \in {"create_ip", "unlink_ip", "unlink_bad"} THEN Count(<<t.dp>>, i) ELSE 0)
    + (IF t.at \in {"namex2", "link_dp", "link_taken", "link_bad"}
       THEN Count(<<t.ip>>, i) ELSE 0)

\* ip->ref counts the open files, the current directories and the pointers of
\* calls in progress, on every path through the calls, the failing ones
\* included; and what an open file or a current directory names is not freed,
\* though its last link may be gone.
RefsExact ==
    /\ \A i \in Inum :
        mem[i].ref = SumFunction([p \in Proc |-> Holds(p, i)])
    /\ \A p \in Proc :
        /\ dinode[cwd[p]].type = "dir"
        /\ fd[p] # None => dinode[fd[p].ip].type # "free"

\* An inode in the cache that nobody has locked is the one on disk: every
\* change was followed by iupdate(), and an inode number that was freed and
\* allocated again is read again.
CacheCoherent ==
    \A i \in Inum :
        mem[i].ref > 0 /\ mem[i].valid /\ mem[i].lock = None => mem[i].d = dinode[i]

\* Processes do not wait for each other's inode locks in a circle.
Waits(p, q) == Wants(p) # 0 /\ mem[Wants(p)].lock = q
NoDeadlock == \A p, q \in Proc : ~(Waits(p, q) /\ Waits(q, p))
====
