---------------------------- MODULE PieceStream ----------------------------
(***************************************************************************)
(* writePiece of src/src/main/engine/pieceStreamEngine.ts: calls that write *)
(* verified pieces of one file, each through an open, a write at the        *)
(* piece's offset and a close that libuv's threads run in any order.        *)
(***************************************************************************)
EXTENDS Naturals

CONSTANTS
    Pieces,  \* piece indices of the file
    Calls    \* writePiece calls in flight together

VARIABLES
    file,    \* pieces whose bytes are in the file, at their offset
    calls,   \* the calls in flight and the piece each of them writes
    written  \* pieces a call has answered success for

vars == <<file, calls, written>>

Idle == [phase |-> "idle", piece |-> "none"]

\* writePiece up to fs.open: a piece whose SHA256 does not match is refused before that and
\* leaves no trace.
writePiece(c, i) ==
    /\ calls[c] = Idle
    /\ calls' = [calls EXCEPT ![c] = [phase |-> "opening", piece |-> i]]
    /\ UNCHANGED <<file, written>>

\* fs.open with 'w+' creates the file or empties it.
FileOpens(c) ==
    /\ calls[c].phase = "opening"
    /\ file' = {}
    /\ calls' = [calls EXCEPT ![c].phase = "writing"]
    /\ UNCHANGED written

FileWrites(c) ==
    /\ calls[c].phase = "writing"
    /\ file' = file \cup {calls[c].piece}
    /\ written' = written \cup {calls[c].piece}
    /\ calls' = [calls EXCEPT ![c] = Idle]

\* The open or the write fails: the call answers the error.
FileFails(c) ==
    /\ calls[c] # Idle
    /\ calls' = [calls EXCEPT ![c] = Idle]
    /\ UNCHANGED <<file, written>>

Init ==
    /\ file = {}
    /\ calls = [c \in Calls |-> Idle]
    /\ written = {}

Next == \E c \in Calls : \/ \E i \in Pieces : writePiece(c, i)
                         \/ FileOpens(c)
                         \/ FileWrites(c)
                         \/ FileFails(c)

Spec == Init /\ [][Next]_vars

\* Random access: writing one piece leaves the others where they are, so that what was
\* answered with success stays in the file until all of it is there.
WrittenPiecesStay == written \subseteq file

=============================================================================
