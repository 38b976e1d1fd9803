----------------------------- MODULE ByteFiles -----------------------------
(***************************************************************************)
(* What the file operations promise, without blocks, FAT and bitmap: a     *)
(* file is a sequence of bytes that only a write through one of its own    *)
(* descriptors changes.  A file has one cursor however often it is opened. *)
(* While it is open, its directory may know of fewer bytes than it has;    *)
(* cat shows those, read shows all.  A write appears piece by piece, and   *)
(* is cut short only when the disk is full.                                *)
(***************************************************************************)
EXTENDS Integers, Sequences

CONSTANTS
  Name, Fd,
  Id, NoId,    \* what tells files apart
  Text,        \* what can be written, sequences of bytes
  Count        \* how much can be asked for

VARIABLES
  named,     \* the file each name stands for, NoId if there is none
  text,      \* the bytes of each file
  kept,      \* how many of them its directory knows of
  users,     \* the descriptors in use, each with its file
  cursor,    \* the place reached in each file that is open
  writer,    \* the write in progress
  answer,    \* what the last command has shown
  full       \* whether the disk has no room for more

vars == <<named, text, kept, users, cursor, writer, answer, full>>

NoWriter == [pos |-> 0, rest |-> <<>>]
Quiet    == writer = NoWriter
Silent   == answer' = <<>>

Shorter(m, n) == IF m <= n THEN m ELSE n
Longer(m, n)  == IF m <= n THEN n ELSE m

\* The piece t put over s, from the place p on.
Overlay(s, p, t) ==
  [k \in 1 .. Longer(Len(s), p + Len(t)) |->
     IF k \in p + 1 .. p + Len(t) THEN t[k - p] ELSE s[k]]

UsedBy(i) == {u \in users : u[2] = i}

---------------------------------------------------------------------------
Init ==
  /\ named = [n \in Name |-> NoId]
  /\ text = [i \in Id |-> <<>>] /\ kept = [i \in Id |-> 0]
  /\ users = {} /\ cursor = [i \in Id |-> 0]
  /\ writer = NoWriter /\ answer = <<>>
  /\ full \in BOOLEAN

\* A command that cannot be carried out changes nothing.
Refuse ==
  /\ Quiet /\ Silent
  /\ UNCHANGED <<named, text, kept, users, cursor, writer>>

\* A new file is empty, whatever its blocks were used for before.
Create(n) ==
  /\ Quiet /\ Silent
  /\ named[n] = NoId
  /\ \E i \in {j \in Id : \A m \in Name : named[m] # j} :
       named' = [named EXCEPT ![n] = i]
  /\ UNCHANGED <<text, kept, users, cursor, writer>>

Open(n, fd) ==
  /\ Quiet /\ Silent
  /\ named[n] # NoId
  /\ \A u \in users : u[1] # fd
  /\ users' = users \cup {<<fd, named[n]>>}
  /\ UNCHANGED <<named, text, kept, cursor, writer>>

\* The directory learns of all bytes; after the last close the cursor is gone.
Close(fd) ==
  /\ Quiet /\ Silent
  /\ \E u \in users :
       /\ u[1] = fd
       /\ users' = users \ {u}
       /\ kept' = [kept EXCEPT ![u[2]] = Len(text[u[2]])]
       /\ cursor' = [cursor EXCEPT ![u[2]] = IF UsedBy(u[2]) = {u} THEN 0 ELSE @]
  /\ UNCHANGED <<named, text, writer>>

\* A file is deleted only when nobody uses it.
Delete(n) ==
  /\ Quiet /\ Silent
  /\ named[n] # NoId /\ UsedBy(named[n]) = {}
  /\ named' = [named EXCEPT ![n] = NoId]
  /\ text' = [text EXCEPT ![named[n]] = <<>>]
  /\ kept' = [kept EXCEPT ![named[n]] = 0]
  /\ UNCHANGED <<users, cursor, writer>>

---------------------------------------------------------------------------
\* All that was asked for, or all there is.
Read(fd, n) ==
  /\ Quiet
  /\ \E u \in users :
       LET to == Shorter(cursor[u[2]] + n, Len(text[u[2]])) IN
       /\ u[1] = fd
       /\ answer' = SubSeq(text[u[2]], cursor[u[2]] + 1, to)
       /\ cursor' = [cursor EXCEPT ![u[2]] = to]
  /\ UNCHANGED <<named, text, kept, users, writer>>

Seek(fd) ==
  /\ Quiet /\ Silent
  /\ \E u \in users : \E to \in 0 .. Len(text[u[2]]) :
       u[1] = fd /\ cursor' = [cursor EXCEPT ![u[2]] = to]
  /\ UNCHANGED <<named, text, kept, users, writer>>

Cat(n) ==
  /\ Quiet
  /\ named[n] # NoId
  /\ answer' = SubSeq(text[named[n]], 1, kept[named[n]])
  /\ UNCHANGED <<named, text, kept, users, cursor, writer>>

\* The write of t starts at the cursor ...
Write(fd, t) ==
  /\ Quiet /\ Silent
  /\ \E u \in users :
       u[1] = fd /\ writer' = [id |-> u[2], pos |-> cursor[u[2]], rest |-> t]
  /\ UNCHANGED <<named, text, kept, users, cursor>>

\* ... puts down one piece after the other, each behind the one before it ...
WritePiece ==
  /\ ~Quiet /\ Silent
  /\ \E k \in 1 .. Len(writer.rest) :
       /\ text' = [text EXCEPT ![writer.id] =
                     Overlay(@, writer.pos, SubSeq(writer.rest, 1, k))]
       /\ writer' = [id |-> writer.id, pos |-> writer.pos + k,
                     rest |-> SubSeq(writer.rest, k + 1, Len(writer.rest))]
  /\ UNCHANGED <<named, kept, users, cursor>>

\* ... and leaves the cursor behind the last.
WriteEnd ==
  /\ ~Quiet /\ Silent
  /\ writer.rest = <<>> \/ full
  /\ cursor' = [cursor EXCEPT ![writer.id] = writer.pos]
  /\ writer' = NoWriter
  /\ UNCHANGED <<named, text, kept, users>>

Next ==
  /\ full' \in BOOLEAN
  /\ \/ Refuse
     \/ \E n \in Name : Create(n) \/ Delete(n) \/ Cat(n) \/ \E fd \in Fd : Open(n, fd)
     \/ \E fd \in Fd : Close(fd) \/ Seek(fd)
     \/ \E fd \in Fd : \E n \in Count : Read(fd, n)
     \/ \E fd \in Fd : \E t \in Text : Write(fd, t)
     \/ WritePiece \/ WriteEnd

Spec == Init /\ [][Next]_vars
=============================================================================
