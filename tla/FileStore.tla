----------------------------- MODULE FileStore -----------------------------
(***************************************************************************)
(* What the file system promises its callers: names bound to files, open   *)
(* files with a position, contents that read back as written, with zeros   *)
(* where nothing was.  A file lives while it has a name or is open.  Every  *)
(* call returns whether it did what it was asked to do; one that did not   *)
(* has changed nothing.                                                    *)
(***************************************************************************)
EXTENDS Integers, FiniteSetsExt, SequencesExt, TLC

CONSTANTS Names, Files, Handles, Values, Zero, NoFile,
          Sizes,      \* of the files created and of the writes
          Positions   \* a handle may be moved to

VARIABLES names,      \* the file each name is bound to, or NoFile
          contents,   \* the cells of each file that has a name or is open
          opened,     \* struct file of each handle: inode (a file), pos, deny_write
          calls,      \* how many calls have returned
          result      \* and whether the last one succeeded

files == <<names, contents, opened>>
vars == <<files, calls, result>>

Closed == [inode |-> NoFile, pos |-> 0, deny |-> FALSE]

Init ==
  /\ names = [n \in Names |-> NoFile]
  /\ contents = << >>
  /\ opened = [h \in Handles |-> Closed]
  /\ calls = 0 /\ result = TRUE

Return(ok) == calls' = calls + 1 /\ result' = ok

\* A call that leaves the files as they are.
Nothing(ok) == Return(ok) /\ UNCHANGED files

Denied(f) == \E h \in Handles : opened[h].inode = f /\ opened[h].deny

\* Files live while they have a name in ns or a handle in os.
Live(ns, os) == ({ns[n] : n \in Names} \cup {os[h].inode : h \in Handles}) \ {NoFile}
Kept(ns, os) == [f \in Live(ns, os) |-> contents[f]]

ZerosFor(size) == [i \in 1 .. size |-> Zero]

Create(n) ==
  /\ Return(TRUE)
  /\ names[n] = NoFile
  /\ \E f \in Files :
       /\ names' = [names EXCEPT ![n] = f]
       /\ f \notin DOMAIN contents
       /\ \E size \in Sizes : contents' = (f :> ZerosFor(size)) @@ contents
  /\ UNCHANGED opened

Unlink(n) ==
  /\ Return(TRUE)
  /\ names[n] # NoFile
  /\ names' = [names EXCEPT ![n] = NoFile]
  /\ contents' = Kept(names', opened)
  /\ UNCHANGED opened

Open(h, n) ==
  /\ Return(TRUE)
  /\ opened[h] = Closed /\ names[n] # NoFile
  /\ opened' = [opened EXCEPT ![h].inode = names[n]]
  /\ UNCHANGED <<names, contents>>

Close(h) ==
  /\ Return(TRUE)
  /\ opened' = [opened EXCEPT ![h] = Closed]
  /\ contents' = Kept(names, opened')
  /\ UNCHANGED names

Move(h, pos) ==
  /\ Return(TRUE)
  /\ opened[h].inode # NoFile
  /\ opened' = [opened EXCEPT ![h].pos = pos]
  /\ UNCHANGED <<names, contents>>

Deny(h, deny) ==
  /\ Return(TRUE)
  /\ opened[h].inode # NoFile
  /\ opened' = [opened EXCEPT ![h].deny = deny]
  /\ UNCHANGED <<names, contents>>

\* data replaces what is at the position, or extends the file, with zeros
\* between its end and the position.
Overwrite(old, pos, data) ==
  [i \in 1 .. Max({Len(old), pos + Len(data)}) |->
     IF i \in pos + 1 .. pos + Len(data) THEN data[i - pos]
     ELSE IF i <= Len(old) THEN old[i] ELSE Zero]

Write(h, data) ==
  LET f == opened[h].inode
  IN  /\ Return(TRUE)
      /\ f # NoFile /\ ~Denied(f)
      /\ opened' = [opened EXCEPT ![h].pos = @ + Len(data)]
      /\ UNCHANGED names
      /\ contents' = [contents EXCEPT ![f] = Overwrite(@, opened[h].pos, data)]

\* The machine is shut down and booted again: no file is open.
Restart ==
  /\ Return(TRUE)
  /\ opened' = [h \in Handles |-> Closed]
  /\ contents' = Kept(names, opened')
  /\ UNCHANGED names

Next ==
  \/ \E h \in Handles, pos \in Positions : Move(h, pos)
  \/ \E h \in Handles, deny \in BOOLEAN : Deny(h, deny)
  \/ \E h \in Handles, size \in Sizes \ {0}, v \in Values :
       Write(h, [i \in 1 .. size |-> v])
  \/ \E h \in Handles, n \in Names : Open(h, n)
  \/ \E n \in Names : Create(n) \/ Unlink(n)
  \/ \E h \in Handles : Close(h)
  \/ Restart
  \/ Nothing(FALSE)

Spec == Init /\ [][Next]_vars
=============================================================================
