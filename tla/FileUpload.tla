------------------------------ MODULE FileUpload ------------------------------
(***************************************************************************)
(* What the chunks of Uploader are: the segments of the files that Upload  *)
(* was given, cut by getFilesInfos, numbered by sendJobs and read by       *)
(* writeMultipartRequest.  Bytes are counted, not stored: the host has the *)
(* bytes of the chunks it has stored.                                      *)
(***************************************************************************)
EXTENDS Uploader, SequencesExt

CONSTANTS
    Sizes,      \* the sizes of the files, in the order of Filenames
    ChunkSize   \* ChunkSizeBytes

Files == DOMAIN Sizes

(* Mutant of TotalChunks: the division rounds down. *)
TotalChunksDown(f) == Sizes[f] \div ChunkSize

(* The chunks of a file, the last of which may be short; none for a file   *)
(* without bytes, which is therefore never sent.                           *)
TotalChunks(f) == (Sizes[f] + ChunkSize - 1) \div ChunkSize

(* The jobs in the order of sendJobs, a file and a chunk number each. *)
SendOrder ==
    FlattenSeq([f \in Files |-> [n \in 1..TotalChunks(f) |-> [file |-> f, chunk |-> n]]])

ChunkCount == Len(SendOrder)

Chunks == UNION { [file : {f}, chunk : 1..TotalChunks(f)] : f \in Files }

(* What a job's request carries: ChunkSize bytes, or, for the last chunk,  *)
(* what is left of the file.  A chunk that is cut short is not sent.       *)
Segment(c) ==
    LET start == (c.chunk - 1) * ChunkSize IN
    IF c.chunk < TotalChunks(c.file)
    THEN start .. (start + ChunkSize - 1)
    ELSE start .. (Sizes[c.file] - 1)

(* The jobs are the chunks: sendJobs has a loop over the files and one     *)
(* over the chunks of each.                                                *)
ASSUME FileUploadAssumption ==
    /\ Sizes \in Seq(Nat)
    /\ ChunkSize \in Nat \ {0}
    /\ NumJobs = ChunkCount
    /\ \A j \in Jobs : SendOrder[j] \in Chunks
    /\ \A c \in Chunks : \E j \in Jobs : SendOrder[j] = c

(* The bytes of a file the host has. *)
Received(f) == UNION { Segment(SendOrder[j]) : j \in {i \in stored : SendOrder[i].file = f} }

(* Files arrive whole: when Upload returns without an error, the host has   *)
(* every byte of every file, whatever the files' sizes, although chunks are *)
(* repeated, fail after they arrived, and come in any order.  Nothing it    *)
(* ever has lies outside the file.                                          *)
FilesWhole ==
    \A f \in Files :
        /\ Received(f) \subseteq 0 .. (Sizes[f] - 1)
        /\ main = "returned" /\ returnErr = NoJob => Received(f) = 0 .. (Sizes[f] - 1)

=============================================================================
