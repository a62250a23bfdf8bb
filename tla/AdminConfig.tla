---------------------------- MODULE AdminConfig ----------------------------
(* The configuration of the running program and everybody who works with   *)
(* it: config.json, the snapshot config.Get() hands out, the snapshot of    *)
(* the WebUI, the TTL of the session store and the copy of the health       *)
(* checker.  Handlers save settings, create, revoke and delete API keys and *)
(* upgrade the password hash under s.cfgMu; a save is a rename of the file  *)
(* followed by the publication of the snapshot; a filter that cannot be     *)
(* applied is rolled back by a second save.  Meanwhile API requests check   *)
(* their key twice, and the process may die between any two steps.          *)
EXTENDS Naturals, FiniteSets

CONSTANTS
  KeyIDs,       \* API keys
  EnvKeys,      \* READONLY_API_KEYS
  Settings,     \* what an administrator may save: [ttl, blocked] records
  EnvSettings,  \* the defaults of DefaultConfig, from the environment
  Requests,     \* requests to /api/v1
  NoKey, NoFile,
  Idle, Unread  \* a reader that has nothing to do, or has not read yet

VARIABLES
  proc,       \* the process: "down", "boot" (Load has read no file), "up"
  disk,       \* config.json
  global,     \* config.globalCfg
  cfg,        \* s.cfg
  ttl,        \* affinity.Store.ttl
  op,         \* the handler that holds s.cfgMu
  notice,     \* configChanged holds an element
  reader,     \* goroutine that refreshes the checker -> the settings it has read
  checker,    \* HealthChecker.cfg
  req,        \* API request -> its place in apiKeyMiddleware
  answered    \* history: key -> what the administrator was last told of it

vars == <<proc, disk, global, cfg, ttl, op, notice, reader, checker, req, answered>>

Setting == Settings \cup {EnvSettings}
Config ==
  [set  : Setting,
   hash : {"legacy", "salted"},                      \* WebUIPasswordHash
   keys : [KeyIDs -> {"absent", "active", "revoked"}],
   used : SUBSET KeyIDs]                             \* LastUsedAt is set

\* The goroutine of consumeConfigChanges and the one that runs batches.
Readers == {"consumer", "batch"}

FirstConfig ==
  [set |-> EnvSettings, hash |-> "salted", keys |-> [k \in KeyIDs |-> "absent"], used |-> {}]

NoOp == [kind |-> "none", step |-> "write", key |-> NoKey, old |-> FirstConfig, new |-> FirstConfig]
Op ==
  [kind : {"none", "save", "create", "revoke", "delete", "upgrade", "undo"},
   step : {"write", "publish", "install", "apply"},
   key  : KeyIDs \cup {NoKey}, old : Config, new : Config]

NoReq == [at |-> "idle", key |-> NoKey]
Req == [at : {"idle", "matched", "allowed", "serving"}, key : KeyIDs \cup {NoKey}]

\* Decoded is what Load makes of the settings Save wrote: a denylist that was
\* cleared is omitted from the file, so the environment's comes back.
Decoded(s) == [s EXCEPT !.blocked = IF s.blocked = {} THEN EnvSettings.blocked ELSE s.blocked]

ASSUME ConfigAssumption ==
  /\ EnvKeys \subseteq KeyIDs
  /\ NoKey \notin KeyIDs
  /\ \A s \in Setting : Decoded(s) \in Setting /\ Decoded(Decoded(s)) = Decoded(s)
  /\ \A s \in Setting : Decoded(s).ttl = s.ttl
  /\ NoFile \notin Config

Up == proc = "up"
Unlocked == Up /\ op.kind = "none"

-----------------------------------------------------------------------------
(* Starting and dying.                                                     *)

\* Everything a start builds from the configuration c.
Running(c) ==
  /\ proc' = "up"
  /\ global' = c
  /\ cfg' = c
  /\ ttl' = c.set.ttl
  /\ checker' = c.set

\* Load finds a file.
LoadFile ==
  /\ proc = "down"
  /\ disk # NoFile
  /\ Running([disk EXCEPT !.set = Decoded(disk.set)])
  /\ UNCHANGED <<disk, op, notice, reader, req, answered>>

\* Mutant of Bootstrap: the credentials are not saved.
BootstrapUnsaved ==
  /\ proc = "down"
  /\ disk = NoFile
  /\ proc' = "boot"
  /\ UNCHANGED <<disk, global, cfg, ttl, op, notice, reader, checker, req, answered>>

\* Load finds none: bootstrapCredentials saves the generated credentials.
Bootstrap ==
  /\ proc = "down"
  /\ disk = NoFile
  /\ proc' = "boot"
  /\ disk' = FirstConfig
  /\ UNCHANGED <<global, cfg, ttl, op, notice, reader, checker, req, answered>>

\* importReadOnlyAPIKeysFromEnv with its own save, on the first start only.
ImportKeys ==
  LET c == [FirstConfig EXCEPT !.keys = [k \in KeyIDs |-> IF k \in EnvKeys THEN "active" ELSE "absent"]]
  IN /\ proc = "boot"
     /\ disk' = c
     /\ Running(c)
     /\ answered' = [k \in KeyIDs |-> IF k \in EnvKeys THEN "active" ELSE answered[k]]
     /\ UNCHANGED <<op, notice, reader, req>>

Status(a) == IF a \in {"active", "revoked"} THEN a ELSE "absent"

\* The process dies; what a handler had not answered yet is what the file says.
Crash ==
  /\ proc # "down"
  /\ proc' = "down"
  /\ op' = NoOp
  /\ notice' = FALSE
  /\ reader' = [r \in Readers |-> Idle]
  /\ req' = [r \in Requests |-> NoReq]
  /\ answered' =
       [k \in KeyIDs |->
          IF k # op.key \/ disk.keys[k] = Status(answered[k]) THEN answered[k]
          ELSE IF disk.keys[k] = "absent" THEN "gone" ELSE disk.keys[k]]
  /\ UNCHANGED <<disk, global, cfg, ttl, checker>>

-----------------------------------------------------------------------------
(* The handlers that change the configuration.                             *)

\* Mutant of Begin: the new configuration is in force before it is saved.
BeginEagerly(kind, k, new) ==
  /\ Unlocked
  /\ op' = [kind |-> kind, step |-> "write", key |-> k, old |-> cfg, new |-> new]
  /\ cfg' = new
  /\ UNCHANGED <<proc, disk, global, ttl, notice, reader, checker, req, answered>>

\* A handler takes s.cfgMu and copies s.cfg.
Begin(kind, k, new) ==
  /\ Unlocked
  /\ op' = [kind |-> kind, step |-> "write", key |-> k, old |-> cfg, new |-> new]
  /\ UNCHANGED <<proc, disk, global, cfg, ttl, notice, reader, checker, req, answered>>

\* Mutant of apiConfigSave: the settings are changed in config.Get()'s snapshot.
apiConfigSaveGlobal(s) == Begin("save", NoKey, [global EXCEPT !.set = s])

apiConfigSave(s) == Begin("save", NoKey, [cfg EXCEPT !.set = s])

\* The identifier is fresh.
apiAPIKeyCreate(k) ==
  /\ answered[k] = "new"
  /\ Begin("create", k, [cfg EXCEPT !.keys[k] = "active"])

apiAPIKeyRevoke(k) ==
  /\ cfg.keys[k] # "absent"
  /\ Begin("revoke", k, [cfg EXCEPT !.keys[k] = "revoked"])

apiAPIKeyDelete(k) ==
  /\ cfg.keys[k] # "absent"
  /\ Begin("delete", k, [cfg EXCEPT !.keys[k] = "absent", !.used = @ \ {k}])

\* A login whose password matched an unsalted hash.
upgradeWebUIPasswordHash ==
  /\ cfg.hash = "legacy"
  /\ Begin("upgrade", NoKey, [cfg EXCEPT !.hash = "salted"])

Doing(step) == Up /\ op.kind # "none" /\ op.step = step

\* config.Save: the new file takes the place of the old one ...
Rename ==
  /\ Doing("write")
  /\ disk' = op.new
  /\ op' = [op EXCEPT !.step = "publish"]
  /\ UNCHANGED <<proc, global, cfg, ttl, notice, reader, checker, req, answered>>

\* ... or something fails before, and the handler gives up.  A roll-back that
\* fails leaves the new configuration in force.
SaveFails ==
  /\ Doing("write")
  /\ op' = NoOp
  /\ UNCHANGED <<proc, disk, global, cfg, ttl, notice, reader, checker, req, answered>>

\* config.Save: globalCfg = &saved.
Publish ==
  /\ Doing("publish")
  /\ global' = op.new
  /\ op' = [op EXCEPT !.step = "install"]
  /\ UNCHANGED <<proc, disk, cfg, ttl, notice, reader, checker, req, answered>>

\* The administrator is told.
Answer ==
  [k \in KeyIDs |->
     IF k # op.key THEN answered[k]
     ELSE CASE op.kind = "create" -> "active"
            [] op.kind = "revoke" -> "revoked"
            [] op.kind = "delete" -> "gone"]

\* Mutant of Install: a roll-back leaves the TTL of the failed save.
InstallKeepsTTL ==
  /\ Doing("install")
  /\ cfg' = op.new
  /\ IF op.kind = "save" THEN ttl' = op.new.set.ttl ELSE UNCHANGED ttl
  /\ answered' = Answer
  /\ op' = IF op.kind = "save" THEN [op EXCEPT !.step = "apply"] ELSE NoOp
  /\ UNCHANGED <<proc, disk, global, notice, reader, checker, req>>

\* s.cfg = &newCfg, and for settings affinity.SetTTL.
Install ==
  /\ Doing("install")
  /\ cfg' = op.new
  /\ IF op.kind \in {"save", "undo"} THEN ttl' = op.new.set.ttl ELSE UNCHANGED ttl
  /\ answered' = Answer
  /\ op' = IF op.kind = "save" THEN [op EXCEPT !.step = "apply"] ELSE NoOp
  /\ UNCHANGED <<proc, disk, global, notice, reader, checker, req>>

\* applyCountryFilters succeeded: the checker is notified, without blocking.
Applied ==
  /\ Doing("apply")
  /\ notice' = TRUE
  /\ op' = NoOp
  /\ UNCHANGED <<proc, disk, global, cfg, ttl, reader, checker, req, answered>>

\* The filter could not be applied: configSave(&oldCfg).
ApplyFails ==
  /\ Doing("apply")
  /\ op.new.set.blocked # {}
  /\ op' = [op EXCEPT !.kind = "undo", !.step = "write", !.new = op.old]
  /\ UNCHANGED <<proc, disk, global, cfg, ttl, notice, reader, checker, req, answered>>

-----------------------------------------------------------------------------
(* The health checker learns of the configuration.                         *)

\* consumeConfigChanges takes the notice, then calls config.Get().
TakeNotice ==
  /\ Up
  /\ notice
  /\ reader["consumer"] = Idle
  /\ notice' = FALSE
  /\ reader' = [reader EXCEPT !["consumer"] = Unread]
  /\ UNCHANGED <<proc, disk, global, cfg, ttl, op, checker, req, answered>>

ReadConfig ==
  /\ Up
  /\ reader["consumer"] = Unread
  /\ reader' = [reader EXCEPT !["consumer"] = global.set]
  /\ UNCHANGED <<proc, disk, global, cfg, ttl, op, notice, checker, req, answered>>

\* Mutant of StartBatch: a batch works with the configuration it has.
StartBatchAsIs ==
  /\ Up
  /\ reader["batch"] = Idle
  /\ reader' = [reader EXCEPT !["batch"] = checker]
  /\ UNCHANGED <<proc, disk, global, cfg, ttl, op, notice, checker, req, answered>>

\* A batch begins with config.Get().
StartBatch ==
  /\ Up
  /\ reader["batch"] = Idle
  /\ reader' = [reader EXCEPT !["batch"] = global.set]
  /\ UNCHANGED <<proc, disk, global, cfg, ttl, op, notice, checker, req, answered>>

\* HealthChecker.UpdateConfig with what was read.
UpdateConfig(r) ==
  /\ Up
  /\ reader[r] \in Setting
  /\ checker' = reader[r]
  /\ reader' = [reader EXCEPT ![r] = Idle]
  /\ UNCHANGED <<proc, disk, global, cfg, ttl, op, notice, req, answered>>

-----------------------------------------------------------------------------
(* apiKeyMiddleware.  The limiter is KeyLimiter; here it lets pass or not. *)

MoveTo(r, at) ==
  req' = [req EXCEPT ![r] = IF at = "idle" THEN NoReq ELSE [req[r] EXCEPT !.at = at]]

\* readOnlyAPIKeyMatch, under the read lock.
readOnlyAPIKeyMatch(r, k) ==
  /\ Unlocked
  /\ req[r].at = "idle"
  /\ cfg.keys[k] = "active"
  /\ req' = [req EXCEPT ![r] = [at |-> "matched", key |-> k]]
  /\ UNCHANGED <<proc, disk, global, cfg, ttl, op, notice, reader, checker, answered>>

allow(r) ==
  /\ Up
  /\ req[r].at = "matched"
  /\ \E at \in {"allowed", "idle"} : MoveTo(r, at)
  /\ UNCHANGED <<proc, disk, global, cfg, ttl, op, notice, reader, checker, answered>>

\* Mutant of markReadOnlyAPIKeyUsed: the first match is good enough.
markWithoutMatch(r) ==
  /\ Unlocked
  /\ req[r].at = "allowed"
  /\ cfg' = [cfg EXCEPT !.used = @ \cup {req[r].key}]
  /\ MoveTo(r, "serving")
  /\ UNCHANGED <<proc, disk, global, ttl, op, notice, reader, checker, answered>>

\* The key is matched again and its LastUsedAt set, in s.cfg only.
markReadOnlyAPIKeyUsed(r) ==
  LET k == req[r].key
      good == cfg.keys[k] = "active"
  IN /\ Unlocked
     /\ req[r].at = "allowed"
     /\ cfg' = IF good THEN [cfg EXCEPT !.used = @ \cup {k}] ELSE cfg
     /\ MoveTo(r, IF good THEN "serving" ELSE "idle")
     /\ UNCHANGED <<proc, disk, global, ttl, op, notice, reader, checker, answered>>

\* The handler has answered.
Served(r) ==
  /\ Up
  /\ req[r].at = "serving"
  /\ MoveTo(r, "idle")
  /\ UNCHANGED <<proc, disk, global, cfg, ttl, op, notice, reader, checker, answered>>

-----------------------------------------------------------------------------
\* A file that an earlier version wrote.
OldFile(s) == [FirstConfig EXCEPT !.set = Decoded(s), !.hash = "legacy"]

Init ==
  /\ proc = "down"
  /\ disk \in {NoFile} \cup {OldFile(s) : s \in Setting}
  /\ global = FirstConfig
  /\ cfg = FirstConfig
  /\ ttl = EnvSettings.ttl
  /\ op = NoOp
  /\ notice = FALSE
  /\ reader = [r \in Readers |-> Idle]
  /\ checker = EnvSettings
  /\ req = [r \in Requests |-> NoReq]
  /\ answered = [k \in KeyIDs |-> "new"]

Next ==
  \/ LoadFile \/ Bootstrap \/ ImportKeys \/ Crash
  \/ \E s \in Settings : apiConfigSave(s)
  \/ \E k \in KeyIDs : apiAPIKeyCreate(k) \/ apiAPIKeyRevoke(k) \/ apiAPIKeyDelete(k)
  \/ upgradeWebUIPasswordHash
  \/ Rename \/ SaveFails \/ Publish \/ Install \/ Applied \/ ApplyFails
  \/ TakeNotice \/ ReadConfig \/ StartBatch
  \/ \E r \in Readers : UpdateConfig(r)
  \/ \E r \in Requests :
       \/ \E k \in KeyIDs : readOnlyAPIKeyMatch(r, k)
       \/ allow(r) \/ markReadOnlyAPIKeyUsed(r) \/ Served(r)

Spec == Init /\ [][Next]_vars

\* Batches start again and again, and a goroutine that has read goes on.
Fairness == WF_vars(StartBatch) /\ \A r \in Readers : WF_vars(UpdateConfig(r))
FairSpec == Spec /\ Fairness

-----------------------------------------------------------------------------
(* Properties.                                                             *)

\* Every variable keeps its type.
TypeOK ==
  /\ proc \in {"down", "boot", "up"}
  /\ disk \in Config \cup {NoFile}
  /\ proc # "down" => disk \in Config
  /\ global \in Config
  /\ cfg \in Config
  /\ ttl \in {s.ttl : s \in Setting}
  /\ op \in Op
  /\ notice \in BOOLEAN
  /\ reader \in [Readers -> Setting \cup {Idle, Unread}]
  /\ checker \in Setting
  /\ req \in [Requests -> Req]
  /\ answered \in [KeyIDs -> {"new", "active", "revoked", "gone"}]

\* Whenever no handler is at work the four views of the configuration agree,
\* whichever saves, filters and roll-backs have failed: the WebUI's snapshot,
\* the one of config.Get(), the TTL of the session store and the file.  The
\* file's settings are compared as a restart reads them (Decoded, on both
\* sides), since an empty list cannot be told from a missing one there: that a
\* restart may load something else than is in force is FileIsSourceOfTruth.
\* Only LastUsedAt may be ahead in the WebUI's.
ViewsAgree ==
  Unlocked =>
    /\ global.set = cfg.set /\ global.hash = cfg.hash /\ global.keys = cfg.keys
    /\ ttl = cfg.set.ttl
    /\ disk.hash = cfg.hash /\ disk.keys = cfg.keys
    /\ Decoded(disk.set) = Decoded(cfg.set)

\* What the administrator was last told of a key is true, across saves and
\* roll-backs of settings, failures and restarts.
KeysAsAnswered == Unlocked => \A k \in KeyIDs : cfg.keys[k] = Status(answered[k])

\* Once the administrator was told that a key is revoked or deleted, no request
\* gets past the middleware with it, one that had matched before included.
RevokedServesNothing ==
  [][\A r \in Requests :
       req[r].at # "serving" /\ req'[r].at = "serving" => answered[req[r].key] = "active"]_vars

\* While the process runs no save and no roll-back forgets that a key was used.
UsageKept ==
  [][\A k \in cfg.used : Up /\ proc' = "up" /\ cfg'.keys[k] # "absent" => k \in cfg'.used]_vars

\* When the published settings come to rest the checker ends up with them, also
\* after a roll-back, of which it is not notified.
CheckerFollows ==
  \A s \in Setting : <>[](Up /\ global.set = s) => <>[](checker = s)

\* README.md: config.json is the source of truth on subsequent starts.
FileIsSourceOfTruth == [][~Up /\ proc' = "up" => cfg'.set = disk'.set]_vars
=============================================================================
