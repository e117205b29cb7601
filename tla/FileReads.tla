------------------------------ MODULE FileReads ------------------------------
(***************************************************************************)
(* What open, close and read promise to programs.  An open descriptor is   *)
(* the part of its file that is still to be read; a read takes a piece off *)
(* its front.  A directory gives one string at a time and starts over at   *)
(* the end.  open takes the lowest free descriptor.  Nothing one program does  *)
(* moves another program's descriptors.                                    *)
(***************************************************************************)
EXTENDS Integers, Sequences

CONSTANTS Progs, FreeFds, Opens, Directory

VARIABLES rest,   \* rest[p][fd]: the kind of what is open, and what is left of it
          out     \* the data of each program's last call

reads == <<rest, out>>

Closed == [kind |-> "closed", data |-> <<>>]
Closeds == [fd \in FreeFds |-> Closed]
NoData == <<>>

ReadsInit ==
    /\ rest = [p \in Progs |-> Closeds]
    /\ out = [p \in Progs |-> NoData]

\* A new program in the slot.
Start(p) ==
    /\ rest' = [rest EXCEPT ![p] = Closeds]
    /\ out' = [out EXCEPT ![p] = NoData]

OpenFile(p) ==
    /\ \E fd \in FreeFds, c \in Opens :
         /\ rest[p][fd] = Closed
         /\ \A e \in FreeFds : e < fd => rest[p][e] # Closed
         /\ rest' = [rest EXCEPT ![p][fd] = c]
    /\ out' = [out EXCEPT ![p] = NoData]

CloseFile(p) ==
    /\ \E fd \in FreeFds :
         /\ rest[p][fd] # Closed
         /\ rest' = [rest EXCEPT ![p][fd] = Closed]
    /\ out' = [out EXCEPT ![p] = NoData]

\* Bytes of a file.
Take(p) ==
    \E fd \in FreeFds :
      LET data == rest[p][fd].data IN
      \E n \in 0 .. Len(data) :
        /\ rest[p][fd].kind # "directory"
        /\ out' = [out EXCEPT ![p] = SubSeq(data, 1, n)]
        /\ rest' = [rest EXCEPT ![p][fd].data = SubSeq(data, n + 1, Len(data))]

\* The next string of a directory.
TakeName(p) ==
    \E fd \in FreeFds :
      LET data == rest[p][fd].data IN
      /\ rest[p][fd].kind = "directory" /\ data # <<>>
      /\ out' = [out EXCEPT ![p] = Head(data)]
      /\ rest' = [rest EXCEPT ![p][fd].data = Tail(data)]

\* The end of a directory.
Rewind(p) ==
    /\ \E fd \in FreeFds :
         /\ rest[p][fd] = [kind |-> "directory", data |-> <<>>]
         /\ rest' = [rest EXCEPT ![p][fd].data = Directory]
    /\ out' = [out EXCEPT ![p] = NoData]

\* A call that fails, or does not concern files.
Other(p) == rest' = rest /\ out' = [out EXCEPT ![p] = NoData]

ReadsNext ==
    \E p \in Progs : \/ Start(p) \/ OpenFile(p) \/ CloseFile(p)
                     \/ Take(p) \/ TakeName(p) \/ Rewind(p) \/ Other(p)

ReadsSpec == ReadsInit /\ [][ReadsNext]_reads

=============================================================================
