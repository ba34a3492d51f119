------------------------------ MODULE Hosting ------------------------------
(***************************************************************************)
(* Photos on the host that Deploy works on: the storage directory lies in  *)
(* the checkout that a deployment resets and cleans, the handlers live in  *)
(* the container that it stops, and the database outlives both.            *)
(***************************************************************************)
EXTENDS Photos, Deploy

hostingVars == <<photoVars, deployVars>>

HostingInit == Init /\ DeployInit

\* Requests reach the app only while its container answers.
AppStep == Answers(app) /\ ServerStep /\ UNCHANGED deployVars

\* The process dies and docker starts it again.
ProcessDies == Answers(app) /\ Crash /\ UNCHANGED deployVars

\* The old container is stopped: what has not drained by then is gone.
StopApp == Stop /\ DropHandlers

\* git clean -fd -e storage/ removes what git does not track, storage/ excepted; the
\* checkout itself never held a photo.
Cleaned == files

FetchCode ==
  /\ Fetch
  /\ files' = Cleaned
  /\ UNCHANGED <<rows, refs, shown, hand, stale, parted>>

\* Every other command works on images, containers and the schema.
OtherCommand ==
  /\ Begin \/ Cut \/ Snapshot \/ Build \/ Migrate \/ NoSwap \/ Start
     \/ Probe \/ Retag \/ Reprobe \/ AssertPort
  /\ UNCHANGED photoVars

HostingNext == AppStep \/ ProcessDies \/ StopApp \/ FetchCode \/ OtherCommand

HostingSpec == HostingInit /\ [][HostingNext]_hostingVars
=============================================================================
