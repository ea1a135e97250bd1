--------------------------- MODULE TransferClaims ---------------------------
(***************************************************************************)
(* What README.md says of transfers and the code does not do.  Each claim  *)
(* is refuted by a run in which only the fault it takes is enabled.        *)
(***************************************************************************)
EXTENDS FileTransfer

\* README "No data corruption": a download that resumes holds the file that
\* was offered.  The resume file is keyed by the name alone and the chunks it
\* records are never hashed again (recvFile, lines 255 to 262).
ResumedFileIsOffered == DoneMeansOffered

\* README "Resume after crash, kill, or network loss": a chunk the resume
\* file records survives a kill.  The chunk may still be in the buffer of out
\* when save has closed the resume file (lines 297 to 299).
RecordedSurvivesKill ==
  rpc = "crashed" /\ resumeFile # NoResume =>
    \A i \in resumeFile : disk[i] = ReadChunk(src, i)

\* README "Safe decoding over TCP streams": an accepted session ends when no
\* fault occurs, however TCP cuts the stream into reads.
EveryAcceptedSessionEnds == rpc = "open" ~> BothEnded
=============================================================================
