-------------------------- MODULE MCSignalPipeline --------------------------
(* The exporters of the pipelines that TLC checks. *)
EXTENDS SignalPipeline

CONSTANTS f1, f2

\* Pipelines of two file exporters and a remote one, of a file and a remote one, and of
\* a remote one.
TwoFilesAndRemote == <<f1, None, f2>>
FileAndRemote     == <<f1, None>>
OneRemote         == <<None>>
=============================================================================
