------------------------------ MODULE Startup ------------------------------
(***************************************************************************)
(* start-ruzzco.ps1: the shop window that makes the PC ready step by step  *)
(* and then keeps the app and the HTTPS gateway running.  Any step may     *)
(* fail, the window may be closed in the middle of one, the code may be    *)
(* updated at any time; then the script is run again.  A version number    *)
(* stands for the contents of a file (and its time of writing).            *)
(***************************************************************************)
EXTENDS Naturals

CONSTANTS
  MaxUpdates,     \* bound: changes of the code
  MaxStarts       \* bound: runs of the script

VARIABLES
  at,             \* the step the script is at, "off" when it is not running
  code,           \* versions of package-lock.json, schema.prisma and all a build is made from
  modules,        \* web/node_modules
  built,          \* web/.next: what the build read, and what BUILD_ID's time covers
  lockHash,       \* $lockHash, taken before npm ci
  settings,       \* .env files: "none" until filled in
  database,       \* the MySQL volume
  dev,            \* development mode
  https,          \* useHttps
  appPort,        \* who listens on port 3000: "none", "ours" or "other"
  gatewayUp,
  starts,
  updated,        \* history: the code was changed since the script began
  seedCut,        \* history: a seed was cut short
  uncounted       \* history: this run could not count the barbers, and said so

startupVars ==
  <<at, code, modules, built, lockHash, settings, database, dev, https, appPort, gatewayUp,
    starts, updated, seedCut, uncounted>>

ASSUME StartupAssumption == MaxUpdates \in Nat /\ MaxStarts \in Nat

Versions == 0 .. MaxUpdates
Missing == MaxUpdates + 1
Found == Versions \cup {Missing}
(* The steps in their order, and what may be cut short inside them. *)
ScriptSteps ==
  {"off", "tools", "docker", "settings", "servers", "packages", "npm ci", "stamp", "generate",
   "mysql", "migrate", "count", "seed", "forecast", "build", "building", "app", "waiting",
   "gateway", "running"}

(* next: next/package.json is there; stamp and hidden: the lock file .ruzzco-lock-hash
   and .package-lock.json are of; near: package-lock.json was last written before
   .package-lock.json, or in the two minutes after; of: what is installed; client: the
   schema prisma generate ran on. *)
NoModules == [next |-> FALSE, stamp |-> Missing, hidden |-> Missing, near |-> FALSE, of |-> Missing,
              client |-> Missing]

StartupTypeOK ==
  /\ at \in ScriptSteps
  /\ code \in [lock : Versions, schema : Versions, all : 0 .. MaxUpdates + 1]
  /\ modules \in [next : BOOLEAN, stamp : Found, hidden : Found, near : BOOLEAN, of : Found, client : Found]
  /\ built \in [read : 0 .. MaxUpdates + 2, id : 0 .. MaxUpdates + 2]
  /\ lockHash \in Found
  /\ settings \in {"none", "filled"}
  /\ database \in [migrated : Found, barbers : BOOLEAN, services : BOOLEAN]
  /\ {dev, https, gatewayUp, updated, seedCut, uncounted} \subseteq BOOLEAN
  /\ appPort \in {"none", "ours", "other"}
  /\ starts \in 0 .. MaxStarts

NoBuild == MaxUpdates + 2

StartupInit ==
  /\ at = "off" /\ starts = 0
  /\ code = [lock |-> 0, schema |-> 0, all |-> 0]
  /\ modules = NoModules
  /\ built = [read |-> NoBuild, id |-> NoBuild]
  /\ lockHash = Missing
  /\ settings = "none"
  /\ database = [migrated |-> Missing, barbers |-> FALSE, services |-> FALSE]
  /\ dev = FALSE /\ https = FALSE /\ appPort = "none" /\ gatewayUp = FALSE
  /\ updated = FALSE /\ seedCut = FALSE /\ uncounted = FALSE

Start ==
  /\ at = "off" /\ starts < MaxStarts
  /\ at' = "tools" /\ starts' = starts + 1
  /\ dev' \in BOOLEAN           \* -Dev
  /\ https' = TRUE
  /\ updated' = FALSE
  /\ UNCHANGED <<code, modules, built, lockHash, settings, database, appPort, gatewayUp, seedCut, uncounted>>

StepsTo(from, to) ==
  /\ at = from
  /\ at' = to
  /\ UNCHANGED <<starts, updated>>

Goes(from, to) == StepsTo(from, to) /\ UNCHANGED uncounted

(* Stop-Started: the servers of this run end with it. *)
StopStarted == gatewayUp' = FALSE /\ appPort' = IF appPort = "ours" THEN "none" ELSE appPort

(* What the script held in memory ends with it. *)
ScriptEnds ==
  /\ at' = "off"
  /\ lockHash' = Missing /\ dev' = FALSE /\ https' = FALSE /\ uncounted' = FALSE

(* Quit, at whatever check failed. *)
Quit ==
  /\ at \notin {"off", "npm ci", "seed", "building"}
  /\ ScriptEnds /\ StopStarted
  /\ UNCHANGED <<code, modules, built, settings, database, starts, updated, seedCut>>

(* 1-4.  Without OpenSSL or with its ports taken the HTTPS gateway is left out; old
   Node.js servers are stopped. *)
Tools == Goes("tools", "docker") /\ https' \in {https, FALSE}
         /\ UNCHANGED <<code, modules, built, lockHash, settings, database, dev, appPort, gatewayUp, seedCut>>

Docker == Goes("docker", "settings")
          /\ UNCHANGED <<code, modules, built, lockHash, settings, database, dev, https, appPort, gatewayUp,
                 seedCut>>

(* Empty values are filled in, which makes web/.env newer than a build. *)
Settings ==
  /\ Goes("settings", "servers")
  /\ settings' = "filled"
  /\ code' = IF settings = "none" THEN [code EXCEPT !.all = @ + 1] ELSE code
  /\ UNCHANGED <<modules, built, lockHash, database, dev, https, appPort, gatewayUp, seedCut>>

OldServers ==
  /\ Goes("servers", "packages")
  /\ appPort' = "none" /\ gatewayUp' = FALSE
  /\ https' \in {https, FALSE}
  /\ UNCHANGED <<code, modules, built, lockHash, settings, database, dev, seedCut>>

(* Mutation of NeedInstall: an install that was cut short is taken for a whole one. *)
NeedInstallNext == ~modules.next \/ (modules.stamp # Missing /\ modules.stamp # code.lock)

(* The stamp of an install by this script, else npm's own hidden lock file, which it
   writes last: whether package-lock.json was written more than two minutes after it. *)
NeedInstall ==
  IF ~modules.next THEN TRUE
  ELSE IF modules.stamp # Missing THEN modules.stamp # code.lock
  ELSE modules.hidden = Missing \/ (modules.hidden # code.lock /\ ~modules.near)

Packages ==
  /\ IF NeedInstall
     THEN Goes("packages", "npm ci") /\ modules' \in {NoModules, [NoModules EXCEPT !.next = TRUE]}
     ELSE Goes("packages", "stamp") /\ UNCHANGED modules
  /\ lockHash' = code.lock
  /\ UNCHANGED <<code, built, settings, database, dev, https, appPort, gatewayUp, seedCut>>

(* npm reads the lock file when it starts and writes its own at the end. *)
Installed(read) == [next |-> TRUE, stamp |-> Missing, hidden |-> code.lock, near |-> TRUE, of |-> read,
                    client |-> Missing]

NpmCi ==
  /\ Goes("npm ci", "stamp")
  /\ \E read \in {lockHash, code.lock} : modules' = Installed(read)
  /\ UNCHANGED <<code, built, lockHash, settings, database, dev, https, appPort, gatewayUp, seedCut>>

Stamp ==
  /\ Goes("stamp", "generate")
  /\ modules' = [modules EXCEPT !.stamp = lockHash]
  /\ UNCHANGED <<code, built, lockHash, settings, database, dev, https, appPort, gatewayUp, seedCut>>

Generate ==
  /\ Goes("generate", "mysql")
  /\ modules' = [modules EXCEPT !.client = code.schema]
  /\ UNCHANGED <<code, built, lockHash, settings, database, dev, https, appPort, gatewayUp, seedCut>>

-----------------------------------------------------------------------------
(* 6. The database. *)

MySql == Goes("mysql", "migrate")
         /\ UNCHANGED <<code, modules, built, lockHash, settings, database, dev, https, appPort, gatewayUp,
                 seedCut>>

Migrate ==
  /\ Goes("migrate", "count")
  /\ database' = [database EXCEPT !.migrated = code.schema]
  /\ UNCHANGED <<code, modules, built, lockHash, settings, dev, https, appPort, gatewayUp, seedCut>>

CountBarbers ==
  /\ IF ~database.barbers THEN Goes("count", "seed") ELSE Goes("count", "forecast")
  /\ UNCHANGED <<code, modules, built, lockHash, settings, database, dev, https, appPort, gatewayUp,
                 seedCut>>

(* A count that fails is a warning: nothing is seeded. *)
CountFails ==
  /\ StepsTo("count", "forecast")
  /\ uncounted' = TRUE
  /\ UNCHANGED <<code, modules, built, lockHash, settings, database, dev, https, appPort, gatewayUp, seedCut>>

(* seed.ts: the barbers first, then the services. *)
SeedBarbers ==
  /\ at = "seed" /\ ~database.barbers
  /\ database' = [database EXCEPT !.barbers = TRUE]
  /\ UNCHANGED <<at, code, modules, built, lockHash, settings, dev, https, appPort, gatewayUp, starts, updated,
                 seedCut, uncounted>>

SeedServices ==
  /\ Goes("seed", "forecast") /\ database.barbers
  /\ database' = [database EXCEPT !.services = TRUE]
  /\ UNCHANGED <<code, modules, built, lockHash, settings, dev, https, appPort, gatewayUp, seedCut>>

(* 7. The forecast service only warns. *)
ForecastService == Goes("forecast", "build")
  /\ UNCHANGED <<code, modules, built, lockHash, settings, database, dev, https, appPort, gatewayUp,
                 seedCut>>

-----------------------------------------------------------------------------
(* 8. The app. *)

(* Something is newer than BUILD_ID. *)
BuildStale == built.id # code.all

(* next build clears what was there and reads the sources; rebuild: -Rebuild. *)
Build ==
  /\ \E rebuild \in BOOLEAN :
       IF ~dev /\ (rebuild \/ BuildStale)
       THEN Goes("build", "building") /\ built' = [read |-> code.all, id |-> NoBuild]
       ELSE Goes("build", "app") /\ UNCHANGED built
  /\ UNCHANGED <<code, modules, lockHash, settings, database, dev, https, appPort, gatewayUp, seedCut>>

BuildDone ==
  /\ Goes("building", "app")
  /\ built' = [built EXCEPT !.id = code.all]
  /\ UNCHANGED <<code, modules, lockHash, settings, database, dev, https, appPort, gatewayUp, seedCut>>

BuildFails ==
  /\ Goes("building", "app")
  /\ dev' = TRUE
  /\ UNCHANGED <<code, modules, built, lockHash, settings, database, https, appPort, gatewayUp, seedCut>>

(* Another server may have taken the port since step 4. *)
StartApp ==
  /\ Goes("app", "waiting")
  /\ appPort' = IF appPort = "none" THEN "ours" ELSE appPort
  /\ UNCHANGED <<code, modules, built, lockHash, settings, database, dev, https, gatewayUp, seedCut>>

(* Whoever answers; an app that has exited by then is noticed. *)
AppAnswers ==
  /\ Goes("waiting", "gateway")
  /\ appPort # "none"
  /\ UNCHANGED <<code, modules, built, lockHash, settings, database, dev, https, appPort, gatewayUp,
                 seedCut>>

(* 9, 10.  A gateway that stops is a warning. *)
StartGateway ==
  /\ Goes("gateway", "running")
  /\ gatewayUp' \in {https, FALSE}
  /\ UNCHANGED <<code, modules, built, lockHash, settings, database, dev, https, appPort, seedCut>>

GatewayStops ==
  /\ gatewayUp
  /\ gatewayUp' = FALSE
  /\ UNCHANGED <<at, code, modules, built, lockHash, settings, database, dev, https, appPort, starts, updated,
                 seedCut, uncounted>>

(* The loop looks every two seconds (Quit). *)
AppStops ==
  /\ appPort = "ours"
  /\ appPort' = "none"
  /\ UNCHANGED <<at, code, modules, built, lockHash, settings, database, dev, https, gatewayUp, starts, updated,
                 seedCut, uncounted>>

-----------------------------------------------------------------------------
(* Around it. *)

(* Ctrl+C or the window closed: the programs of its console end with it. *)
Interrupted ==
  /\ at \in {"npm ci", "seed", "building"}
  /\ ScriptEnds
  /\ seedCut' = (seedCut \/ (at = "seed" /\ database.barbers))
  /\ UNCHANGED <<code, modules, built, settings, database, appPort, gatewayUp, starts, updated>>

(* git pull. *)
Update(newLock, newSchema) ==
  /\ code.all - (IF settings = "none" THEN 0 ELSE 1) < MaxUpdates
  /\ code' = [lock |-> IF newLock THEN code.lock + 1 ELSE code.lock,
              schema |-> IF newSchema THEN code.schema + 1 ELSE code.schema, all |-> code.all + 1]
  /\ \E late \in BOOLEAN : modules' = [modules EXCEPT !.near = @ /\ ~(newLock /\ late)]
  /\ updated' = TRUE
  /\ UNCHANGED <<at, built, lockHash, settings, database, dev, https, appPort, gatewayUp, starts, seedCut, uncounted>>

(* A developer's npm ci and next dev, outside the script. *)
InstallByHand ==
  /\ at = "off"
  /\ modules' = Installed(code.lock)
  /\ UNCHANGED <<at, code, built, lockHash, settings, database, dev, https, appPort, gatewayUp, starts, updated,
                 seedCut, uncounted>>

ServeByHand ==
  /\ appPort = "none"
  /\ appPort' = "other"
  /\ UNCHANGED <<at, code, modules, built, lockHash, settings, database, dev, https, gatewayUp, starts, updated,
                 seedCut, uncounted>>

StartupNext ==
  \/ Start \/ Quit \/ Tools \/ Docker \/ Settings \/ OldServers
  \/ Packages \/ NpmCi \/ Stamp \/ Generate
  \/ MySql \/ Migrate \/ CountBarbers \/ CountFails \/ SeedBarbers \/ SeedServices \/ ForecastService
  \/ Build \/ BuildDone \/ BuildFails \/ StartApp \/ AppAnswers \/ StartGateway
  \/ GatewayStops \/ AppStops \/ Interrupted
  \/ \E newLock \in BOOLEAN, newSchema \in BOOLEAN : Update(newLock, newSchema)
  \/ InstallByHand \/ ServeByHand

StartupSpec == StartupInit /\ [][StartupNext]_startupVars

-----------------------------------------------------------------------------
(* When the window says "Ruzzco is running" the packages are those of the lock file, the
   Prisma client and the database those of the schema, the database has its barbers and
   services and a production build is of the code there is, whatever step an earlier run
   was cut short in.  The code leaves out: an update in the middle of the run, of the
   last install or of the last build; a new package-lock.json written within two minutes
   of an install that has no stamp, which is stamped as installed (start-ruzzco.ps1:516,
   527); a count that failed, after which nothing is seeded (:562); and a seed cut short
   between barbers and services, which is not repeated (:557). *)
RunningIsWhole ==
  at = "running" /\ ~updated =>
    /\ \/ modules.of = code.lock
       \/ modules.of # modules.hidden
       \/ modules.near /\ modules.hidden # code.lock
    /\ modules.client = code.schema
    /\ database.migrated = code.schema
    /\ database.barbers \/ uncounted
    /\ database.barbers => database.services \/ seedCut
    /\ dev \/ built.read = code.all \/ built.read # built.id
=============================================================================
