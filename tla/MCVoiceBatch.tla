---------------------------- MODULE MCVoiceBatch ----------------------------
(***************************************************************************)
(* Instances of VoiceBatch for TLC: file names are numbers in the order of *)
(* sorted(), recordings are model values.                                  *)
(***************************************************************************)
EXTENDS VoiceBatch, TLC

CONSTANTS watch, cli,     \* the watch thread and a command-line run
          a, b,           \* recordings
          s, t            \* stems

\* Every recording has its own name, and every name its own stem or not.
TwoNames == 1 .. 2
DistinctTwo == a :> 1 @@ b :> 2
OwnStem == 1 :> s @@ 2 :> t

\* Two names that differ in the extension only (.wav and .mp3).
SharedStem == 1 :> s @@ 2 :> s

\* The same name dropped twice.
OneName == {1}
SameName == a :> 1 @@ b :> 1
OneStem == 1 :> s

\* docker-compose: VOICE_WATCH_BATCH_LIMIT=1; the command line has no limit.
WatchAndCli == watch :> 1 @@ cli :> NoLimit
WatchOnly == watch :> 1
=============================================================================
