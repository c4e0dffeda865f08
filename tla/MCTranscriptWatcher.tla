------------------------ MODULE MCTranscriptWatcher ------------------------
(* A few lines of two files, the second followed from its end.             *)
EXTENDS TranscriptWatcherProps
=============================================================================
