-------------------------------- MODULE Wal --------------------------------
(***************************************************************************)
(* wal.rs, as the frames in the file: a frame is a record or Torn, one     *)
(* that was cut short.                                                     *)
(***************************************************************************)
EXTENDS Naturals, Sequences, FiniteSetsExt

Torn == [kind |-> "torn"]

\* replay stops at the first frame that does not check out, wherever it is.
IsTorn(frame) == frame = Torn
replay(file) ==
    LET torn == {i \in DOMAIN file : IsTorn(file[i])}
    IN IF torn = {} THEN file ELSE SubSeq(file, 1, Min(torn) - 1)

\* open cuts the file to the part that replay accepted.
open(file) == replay(file)

\* append: the whole frame and Ok; or an error, with no byte, some bytes or, when
\* only the sync failed, all of them in the file.
append(file, record) ==
    {[ok |-> TRUE, file |-> Append(file, record)],
     [ok |-> FALSE, file |-> file],
     [ok |-> FALSE, file |-> Append(file, Torn)],
     [ok |-> FALSE, file |-> Append(file, record)]}

=============================================================================
