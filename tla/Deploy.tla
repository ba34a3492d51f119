------------------------------- MODULE Deploy -------------------------------
(***************************************************************************)
(* The deployment script (deploy/deploy.sh) and the host it works on: the  *)
(* checked out code, the image tagged latest, the container of the app and *)
(* the schema of the database.  One step per command that changes one of   *)
(* them; under "set -e" a command that fails ends the script, and the      *)
(* connection the script runs over may be cut at any point.                *)
(*                                                                         *)
(* A version is a commit pushed to some branch: BRANCH is an input of the  *)
(* workflow, and an older commit may come back.  It brings an image, the   *)
(* migrations in its tree, and a docker-compose.yml, which belongs to the  *)
(* checkout and not to the image.                                          *)
(***************************************************************************)
EXTENDS Naturals

CONSTANTS
  MaxVersion,   \* bound: versions ever pushed
  History,      \* the migrations in the tree of each version, numbered as they sort
  DeadImages,   \* versions whose image never answers /healthz
  DeadCompose,  \* versions whose compose file keeps any image from answering
  OpenCompose,  \* versions whose compose file publishes the port elsewhere
  DeployFaults  \* which of "fetch", "inspect", "build", "migrate", "swap", "slow",
                \* "tag", "cut" may happen

ASSUME DeployAssumption ==
  /\ MaxVersion \in Nat \ {0}
  /\ History \in [1 .. MaxVersion -> SUBSET Nat]

VARIABLES
  code,      \* the checkout in REPO_DIR
  latest,    \* the image tagged bodapp-app:latest
  app,       \* the container of the app: its image and compose file, and whether it runs
  schema,    \* the migrations applied
  pc,        \* the next command of the script
  prev,      \* PREV_IMAGE_ID, 0 if empty
  exit,      \* how the last script ended
  before     \* bookkeeping: the app container when the script began

deployVars == <<code, latest, app, schema, pc, prev, exit, before>>

Versions == 0 .. MaxVersion    \* 0: nothing yet
Container == [image : Versions, compose : Versions, up : BOOLEAN]

Commands == {"idle", "fetch", "snapshot", "build", "migrate", "stop", "start", "probe",
             "assert", "retag", "restop", "restart", "reprobe"}

Exits == {"none", "done", "aborted", "cut", "swapFailed", "tagFailed", "nothingBefore",
          "rolledBack", "notRolledBack", "wrongPort"}

Schema(v) == IF v = 0 THEN {} ELSE History[v]

\* A host before its first deployment.
DeployInit ==
  /\ code = 0 /\ latest = 0 /\ schema = {}
  /\ app = [image |-> 0, compose |-> 0, up |-> FALSE]
  /\ pc = "idle" /\ prev = 0 /\ exit = "none"
  /\ before = app

\* A container answers on 127.0.0.1:3001/healthz; the route asks no database.
Answers(c) == c.up /\ c.image \notin DeadImages /\ c.compose \notin DeadCompose

\* The workflow's concurrency group runs one script at a time.
Begin ==
  /\ pc = "idle"
  /\ pc' = "fetch"
  /\ before' = app
  /\ UNCHANGED <<code, latest, app, schema, prev, exit>>

End(how) == pc' = "idle" /\ exit' = how

\* git fetch, git reset --hard to the tip of BRANCH and git clean -fd -e storage/;
\* any of them may fail, the first two with the checkout as it was.
Fetch ==
  /\ pc = "fetch"
  /\ \E v \in 1 .. MaxVersion :
       \/ code' = v /\ pc' = "snapshot" /\ UNCHANGED exit
       \/ "fetch" \in DeployFaults /\ End("aborted") /\ code' \in {code, v}
  /\ UNCHANGED <<latest, app, schema, prev, before>>

SnapshotTag ==
  /\ pc = "snapshot"
  /\ prev' = latest
  /\ pc' = "build"
  /\ UNCHANGED <<code, latest, app, schema, exit, before>>

\* The image of the container, not of the tag; docker inspect knows it even when the
\* container is stopped, but if it fails the script goes on without ("|| true").
Snapshot ==
  /\ pc = "snapshot"
  /\ \/ prev' = app.image
     \/ "inspect" \in DeployFaults /\ prev' = 0
  /\ pc' = "build"
  /\ UNCHANGED <<code, latest, app, schema, exit, before>>

\* docker compose build, which moves the tag; then postgres is started if down,
\* which may fail as well.
Build ==
  /\ pc = "build"
  /\ \/ latest' = code /\ pc' = "migrate" /\ UNCHANGED exit
     \/ "build" \in DeployFaults /\ End("aborted") /\ latest' \in {latest, code}
  /\ UNCHANGED <<code, app, schema, prev, before>>

MigrateSkipped ==
  /\ pc = "migrate"
  /\ pc' = "stop"
  /\ UNCHANGED <<code, latest, app, schema, prev, exit, before>>

\* prisma migrate deploy applies what is missing, and may stop half way.
Migrate ==
  /\ pc = "migrate"
  /\ \/ schema' = schema \cup Schema(code) /\ pc' = "stop" /\ UNCHANGED exit
     \/ /\ "migrate" \in DeployFaults
        /\ End("aborted")
        /\ \E last \in Schema(code) \cup {0} :
             schema' = schema \cup {n \in Schema(code) : n <= last}
  /\ UNCHANGED <<code, latest, app, prev, before>>

\* docker compose up --force-recreate fails before it touches the container,
NoSwap ==
  /\ pc \in {"stop", "restop"}
  /\ "swap" \in DeployFaults
  /\ End("swapFailed")
  /\ UNCHANGED <<code, latest, app, schema, prev, before>>

\* or goes on: the old container stops (SIGTERM, then 30
\* seconds for the requests in flight),
Stop ==
  /\ pc \in {"stop", "restop"}
  /\ app' = [app EXCEPT !.up = FALSE]
  /\ pc' = IF pc = "stop" THEN "start" ELSE "restart"
  /\ UNCHANGED <<code, latest, schema, prev, exit, before>>

\* and one of the tagged image starts, with the compose file of the checkout.  A
\* failure leaves the old container or the new one, stopped.
Start ==
  /\ pc \in {"start", "restart"}
  /\ \/ /\ app' = [image |-> latest, compose |-> code, up |-> TRUE]
        /\ pc' = IF pc = "start" THEN "probe" ELSE "reprobe"
        /\ UNCHANGED exit
     \/ /\ "swap" \in DeployFaults
        /\ End("swapFailed")
        /\ app' \in {app, [image |-> latest, compose |-> code, up |-> FALSE]}
  /\ UNCHANGED <<code, latest, schema, prev, before>>

\* The health gate, up to 90 seconds; a slow start may outlast it.
Probe ==
  /\ pc = "probe"
  /\ \/ /\ Answers(app)
        /\ pc' = "assert" /\ UNCHANGED exit
     \/ /\ ~Answers(app) \/ "slow" \in DeployFaults
        /\ IF prev = 0 THEN End("nothingBefore") ELSE pc' = "retag" /\ UNCHANGED exit
  /\ UNCHANGED <<code, latest, app, schema, prev, before>>

SkipRetag ==
  /\ pc = "retag"
  /\ pc' = "restop"
  /\ UNCHANGED <<code, latest, app, schema, prev, exit, before>>

Retag ==
  /\ pc = "retag"
  /\ \/ latest' = prev /\ pc' = "restop" /\ UNCHANGED exit
     \/ "tag" \in DeployFaults /\ End("tagFailed") /\ UNCHANGED latest
  /\ UNCHANGED <<code, app, schema, prev, before>>

\* One look after five seconds; either way the script fails.
Reprobe ==
  /\ pc = "reprobe"
  /\ \/ Answers(app) /\ End("rolledBack")
     \/ (~Answers(app) \/ "slow" \in DeployFaults) /\ End("notRolledBack")
  /\ UNCHANGED <<code, latest, app, schema, prev, before>>

\* The port must be published on the loopback only; a mismatch fails without rollback.
AssertPort ==
  /\ pc = "assert"
  /\ End(IF app.compose \in OpenCompose THEN "wrongPort" ELSE "done")
  /\ UNCHANGED <<code, latest, app, schema, prev, before>>

\* The runner loses its connection and the script dies with it.
Cut ==
  /\ "cut" \in DeployFaults
  /\ pc # "idle"
  /\ End("cut")
  /\ UNCHANGED <<code, latest, app, schema, prev, before>>

Script == Fetch \/ Snapshot \/ Build \/ Migrate \/ NoSwap \/ Stop \/ Start \/ Probe
          \/ Retag \/ Reprobe \/ AssertPort

DeployNext == Begin \/ Script \/ Cut

----------------------------------------------------------------------------
(* Properties *)

\* Type invariant.
DeployTypeOK ==
  /\ {code, latest, prev} \subseteq Versions /\ schema \in SUBSET Nat
  /\ app \in Container /\ before \in Container
  /\ pc \in Commands /\ exit \in Exits

\* The database always has the migrations of the version that runs, whichever branch
\* it came from, also after a failed deployment and a rollback: migrations come before
\* the swap and are never undone.
SchemaCoversApp == Schema(app.image) \subseteq schema

\* A deployment that fails leaves an app that answers if there was one before: the
\* old one or the one rolled back to.  Not so if the script was cut, if docker failed
\* in a swap ("swapFailed") or at the tag ("tagFailed"), or could not name the image
\* to go back to ("nothingBefore"); and not if the compose file is the culprit, for
\* the rollback starts the old image with the new file.
FailureLeavesAnApp ==
  (/\ pc = "idle" /\ exit \in {"aborted", "rolledBack", "notRolledBack", "wrongPort"}
   /\ Answers(before) /\ app.compose \notin DeadCompose)
    => Answers(app)

\* "Re-tag the previous image and roll the app back": after a rollback the container
\* and the tag are what ran before, so that the next deployment can fall back on it.
RollbackRestores ==
  pc = "idle" /\ exit \in {"rolledBack", "notRolledBack"}
    => app.image = before.image /\ latest = before.image
=============================================================================
