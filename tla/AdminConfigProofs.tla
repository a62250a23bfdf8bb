------------------------- MODULE AdminConfigProofs -------------------------
(* The views of the configuration agree, and what an administrator was told *)
(* of a key is true, for any keys, settings, environment and requests.      *)
EXTENDS AdminConfig, TLAPS

KeyKinds == {"create", "revoke", "delete"}
Result(kind) == IF kind = "create" THEN "active" ELSE IF kind = "revoke" THEN "revoked" ELSE "absent"

Told(c) == \A k \in KeyIDs : c.keys[k] = Status(answered[k])
Same(a, b) == a.set = b.set /\ a.hash = b.hash /\ a.keys = b.keys
Stored(c) == disk.hash = c.hash /\ disk.keys = c.keys /\ Decoded(disk.set) = Decoded(c.set)

\* What the handler that holds s.cfgMu is about to do differs from s.cfg in what
\* it was asked for, and what it would roll back to does not differ in the keys.
OpOK ==
  /\ op.kind = "none" => op = NoOp
  /\ op.kind \in KeyKinds =>
       /\ op.key \in KeyIDs
       /\ \A k \in KeyIDs : op.new.keys[k] = IF k = op.key THEN Result(op.kind) ELSE cfg.keys[k]
  /\ op.kind \in KeyKinds \cup {"upgrade"} => op.new.set = cfg.set
  /\ op.kind \in {"save", "undo", "upgrade"} => op.key = NoKey /\ op.new.keys = cfg.keys
  /\ op.kind = "save" => op.old.keys = cfg.keys /\ op.old.used = cfg.used /\ op.new.used = cfg.used
  /\ op.kind # "none" => \A k \in cfg.used : k \in op.new.used \/ op.new.keys[k] = "absent"
  /\ op.step = "apply" => op.kind = "save"

\* Which views have been changed at which step.
ViewOK ==
  /\ ttl = cfg.set.ttl
  /\ Told(cfg)
  /\ op.step \in {"write", "apply"} => Same(global, cfg) /\ Stored(cfg)
  /\ op.step \in {"publish", "install"} => disk = op.new
  /\ op.step = "install" => global = op.new

\* The file of a process that is not up.
FileOK ==
  /\ disk = NoFile => \A k \in KeyIDs : answered[k] = "new"
  /\ ~Up => op = NoOp
  /\ ~Up /\ disk # NoFile => Told(disk)
  /\ proc = "boot" => disk = FirstConfig

ReqOK == \A r \in Requests : req[r].at # "idle" => req[r].key \in KeyIDs

ConfigInv == TypeOK /\ OpOK /\ (Up => ViewOK) /\ FileOK /\ ReqOK

\* The constant configurations are configurations.
LEMMA Constants ==
  /\ FirstConfig \in Config /\ NoOp \in Op /\ NoReq \in Req /\ EnvSettings \in Setting
  /\ \A s \in Setting : Decoded(s) \in Setting
  /\ NoFile \notin Config
<1>1. EnvSettings \in Setting
  BY DEF Setting
<1>2. FirstConfig \in Config
  BY <1>1 DEF FirstConfig, Config
<1>3. NoOp \in Op /\ NoReq \in Req
  BY <1>2 DEF NoOp, Op, NoReq, Req
<1>4. QED
  BY <1>1, <1>2, <1>3, ConfigAssumption

\* Nothing runs at first, and nothing has been said of any key.
LEMMA InitInv == Init => ConfigInv
<1> SUFFICES ASSUME Init PROVE ConfigInv
  OBVIOUS
<1>1. \A s \in Setting : OldFile(s) \in Config /\ OldFile(s).keys = FirstConfig.keys
  BY Constants DEF OldFile, FirstConfig, Config
<1>2. disk \in Config \cup {NoFile} /\ (disk # NoFile => disk.keys = FirstConfig.keys)
  BY <1>1 DEF Init
<1>3. \A k \in KeyIDs : FirstConfig.keys[k] = Status("new")
  BY DEF FirstConfig, Status
<1>4. TypeOK
  BY <1>2, Constants DEF Init, TypeOK, Readers
<1>5. OpOK
  BY DEF Init, OpOK, NoOp, KeyKinds
<1>6. FileOK
  BY <1>2, <1>3 DEF Init, FileOK, Up, Told
<1>7. ReqOK
  BY DEF Init, ReqOK, NoReq
<1>8. QED
  BY <1>4, <1>5, <1>6, <1>7 DEF Init, ConfigInv, Up

\* A step that touches only the checker, the notice or a request.
LEMMA QuietInv ==
  ASSUME ConfigInv, UNCHANGED <<proc, disk, global, cfg, ttl, op, answered>>,
         notice' \in BOOLEAN, reader' \in [Readers -> Setting \cup {Idle, Unread}],
         checker' \in Setting, req' \in [Requests -> Req], ReqOK'
  PROVE  ConfigInv'
<1>1. TypeOK'
  BY DEF ConfigInv, TypeOK
<1>2. OpOK' /\ FileOK' /\ (Up => ViewOK)' /\ Up' = Up
  BY DEF ConfigInv, OpOK, FileOK, ViewOK, Up, Told, Same, Stored
<1>3. QED
  BY <1>1, <1>2 DEF ConfigInv

\* LoadFile: what a start builds from the file.
LEMMA LoadFileInv == ConfigInv /\ LoadFile => ConfigInv'
<1> SUFFICES ASSUME ConfigInv, LoadFile PROVE ConfigInv'
  OBVIOUS
<1> USE DEF ConfigInv
<1> DEFINE c == [disk EXCEPT !.set = Decoded(disk.set)]
<1>1. /\ proc = "down" /\ disk \in Config /\ op = NoOp /\ Told(disk)
      /\ proc' = "up" /\ global' = c /\ cfg' = c /\ ttl' = c.set.ttl /\ checker' = c.set
      /\ UNCHANGED <<disk, op, notice, reader, req, answered>>
  BY DEF LoadFile, Running, TypeOK, FileOK, Up
<1>2. disk.set \in Setting /\ Decoded(disk.set) \in Setting
  BY <1>1, Constants DEF Config
<1>3. /\ c \in Config /\ c.set = Decoded(disk.set) /\ c.hash = disk.hash /\ c.keys = disk.keys
  BY <1>1, <1>2 DEF Config
<1> HIDE DEF c
<1>4. TypeOK'
  BY <1>1, <1>2, <1>3, Constants DEF TypeOK
<1>5. OpOK'
  BY <1>1 DEF OpOK, NoOp, KeyKinds
<1>6. ViewOK'
  <2>1. Decoded(disk.set) = Decoded(c.set)
    BY <1>2, <1>3, ConfigAssumption
  <2>2. Told(cfg)'
    BY <1>1, <1>3 DEF Told
  <2>3. Stored(cfg)' /\ Same(global, cfg)' /\ ttl' = cfg'.set.ttl
    BY <1>1, <1>3, <2>1 DEF Stored, Same, Decoded
  <2>4. QED
    BY <1>1, <2>2, <2>3 DEF ViewOK, NoOp
<1>7. FileOK' /\ ReqOK'
  BY <1>1, Constants DEF FileOK, ReqOK, Up
<1>8. QED
  BY <1>4, <1>5, <1>6, <1>7

\* Bootstrap: the first file.
LEMMA BootstrapInv == ConfigInv /\ Bootstrap => ConfigInv'
<1> SUFFICES ASSUME ConfigInv, Bootstrap PROVE ConfigInv'
  OBVIOUS
<1> USE DEF ConfigInv
<1>1. /\ proc' = "boot" /\ disk' = FirstConfig /\ op = NoOp
      /\ \A k \in KeyIDs : answered[k] = "new"
      /\ UNCHANGED <<global, cfg, ttl, op, notice, reader, checker, req, answered>>
  BY DEF Bootstrap, FileOK, Up
<1>2. TypeOK'
  BY <1>1, Constants DEF TypeOK
<1>3. OpOK' /\ ReqOK'
  BY <1>1 DEF OpOK, ReqOK
<1>4. Told(disk)'
  BY <1>1 DEF Told, FirstConfig, Status
<1>5. FileOK'
  BY <1>1, <1>4, Constants DEF FileOK
<1>6. QED
  BY <1>1, <1>2, <1>3, <1>5 DEF Up

\* ImportKeys: the second file of the first start.
LEMMA ImportKeysInv == ConfigInv /\ ImportKeys => ConfigInv'
<1> SUFFICES ASSUME ConfigInv, ImportKeys PROVE ConfigInv'
  OBVIOUS
<1> USE DEF ConfigInv
<1> DEFINE keys == [k \in KeyIDs |-> IF k \in EnvKeys THEN "active" ELSE "absent"]
           c == [FirstConfig EXCEPT !.keys = keys]
<1>1. /\ proc = "boot" /\ op = NoOp /\ Told(FirstConfig)
      /\ disk' = c /\ proc' = "up" /\ global' = c /\ cfg' = c /\ ttl' = c.set.ttl
      /\ checker' = c.set /\ UNCHANGED <<op, notice, reader, req>>
      /\ answered' = [k \in KeyIDs |-> IF k \in EnvKeys THEN "active" ELSE answered[k]]
  BY Constants DEF ImportKeys, Running, FileOK, Up
<1>2. c \in Config /\ c.set = EnvSettings /\ c.keys = keys
  BY Constants DEF FirstConfig, Config
<1>3. \A k \in KeyIDs : c.keys[k] = Status(answered'[k])
  <2>1. ASSUME NEW k \in KeyIDs, k \notin EnvKeys PROVE Status(answered[k]) = "absent"
    BY <1>1, <2>1 DEF Told, FirstConfig
  <2>2. QED
    BY <1>1, <1>2, <2>1 DEF Status
<1> HIDE DEF c, keys
<1>4. TypeOK'
  <2>1. answered' \in [KeyIDs -> {"new", "active", "revoked", "gone"}]
    BY <1>1 DEF TypeOK
  <2>2. QED
    BY <1>1, <1>2, <2>1, Constants DEF TypeOK
<1>5. OpOK' /\ ReqOK'
  BY <1>1 DEF OpOK, NoOp, KeyKinds, ReqOK
<1>6. ViewOK'
  BY <1>1, <1>3 DEF ViewOK, Told, Same, Stored, NoOp, Decoded
<1>7. FileOK'
  BY <1>1, <1>2, Constants DEF FileOK, Up
<1>8. QED
  BY <1>4, <1>5, <1>6, <1>7

\* Crash: only what was being done to one key is still unanswered.
LEMMA CrashInv == ConfigInv /\ Crash => ConfigInv'
<1> SUFFICES ASSUME ConfigInv, Crash PROVE ConfigInv'
  OBVIOUS
<1> USE DEF ConfigInv
<1>1. /\ proc # "down" /\ disk \in Config /\ proc' = "down" /\ op' = NoOp
      /\ notice' = FALSE /\ reader' = [r \in Readers |-> Idle]
      /\ req' = [r \in Requests |-> NoReq] /\ UNCHANGED <<disk, global, cfg, ttl, checker>>
      /\ \A k \in KeyIDs : disk.keys[k] \in {"absent", "active", "revoked"}
  BY DEF Crash, TypeOK, Config
<1>2. /\ answered' \in [KeyIDs -> {"new", "active", "revoked", "gone"}]
      /\ \A k \in KeyIDs : disk.keys[k] = Status(answered[k]) => answered'[k] = answered[k]
      /\ op.key \in KeyIDs => disk.keys[op.key] = Status(answered'[op.key])
  BY <1>1 DEF Crash, Status, TypeOK
<1>3. ASSUME NEW k \in KeyIDs, k # op.key PROVE disk.keys[k] = Status(answered[k])
  <2>1. CASE ~Up
    BY <1>1, <2>1, Constants DEF FileOK, Told
  <2>2. CASE Up /\ op.step \in {"write", "apply"}
    BY <2>2 DEF ViewOK, Stored, Told
  <2>3. CASE Up /\ op.step \in {"publish", "install"}
    <3>1. disk = op.new /\ op.kind # "none" /\ cfg.keys[k] = Status(answered[k])
      BY <2>3 DEF ViewOK, Told, OpOK, NoOp
    <3>2. op.new.keys[k] = cfg.keys[k]
      BY <1>3, <3>1 DEF OpOK, TypeOK, Op, KeyKinds
    <3>3. QED
      BY <3>1, <3>2
  <2>4. QED
    BY <2>1, <2>2, <2>3 DEF TypeOK, Op
<1>4. Told(disk)'
  BY <1>1, <1>2, <1>3 DEF Told
<1>5. TypeOK'
  BY <1>1, <1>2, Constants DEF TypeOK
<1>6. OpOK' /\ ReqOK'
  BY <1>1 DEF OpOK, NoOp, KeyKinds, ReqOK, NoReq
<1>7. FileOK' /\ ~Up'
  BY <1>1, <1>4, Constants DEF FileOK, Up
<1>8. QED
  BY <1>5, <1>6, <1>7

\* A handler takes the lock.
LEMMA BeginInv ==
  ASSUME ConfigInv, NEW kind, NEW k, NEW new, Begin(kind, k, new),
         [kind |-> kind, step |-> "write", key |-> k, old |-> cfg, new |-> new] \in Op,
         kind # "none",
         kind \in KeyKinds =>
           /\ k \in KeyIDs
           /\ \A j \in KeyIDs : new.keys[j] = IF j = k THEN Result(kind) ELSE cfg.keys[j],
         kind \in KeyKinds \cup {"upgrade"} => new.set = cfg.set,
         kind \in {"save", "undo", "upgrade"} => k = NoKey /\ new.keys = cfg.keys,
         kind = "save" => new.used = cfg.used,
         \A j \in cfg.used : j \in new.used \/ new.keys[j] = "absent"
  PROVE  ConfigInv'
<1> USE DEF ConfigInv
<1>1. /\ Up /\ op = NoOp
      /\ op' = [kind |-> kind, step |-> "write", key |-> k, old |-> cfg, new |-> new]
      /\ UNCHANGED <<proc, disk, global, cfg, ttl, notice, reader, checker, req, answered>>
  BY DEF Begin, Unlocked, OpOK
<1>2. op'.kind = kind /\ op'.step = "write" /\ op'.key = k /\ op'.old = cfg /\ op'.new = new
  BY <1>1
<1>3. TypeOK'
  BY <1>1 DEF TypeOK
<1>4. OpOK'
  BY <1>1, <1>2 DEF OpOK
<1>5. ViewOK' /\ Up'
  BY <1>1, <1>2 DEF ViewOK, NoOp, Told, Same, Stored, Up
<1>6. FileOK' /\ ReqOK'
  BY <1>1, <1>5 DEF FileOK, ReqOK, Up
<1>7. QED
  BY <1>3, <1>4, <1>5, <1>6

\* The handlers, up to the save.
LEMMA HandlersInv ==
  ASSUME ConfigInv,
         \/ \E s \in Settings : apiConfigSave(s)
         \/ \E k \in KeyIDs : apiAPIKeyCreate(k) \/ apiAPIKeyRevoke(k) \/ apiAPIKeyDelete(k)
         \/ upgradeWebUIPasswordHash
  PROVE  ConfigInv'
<1>1. cfg \in Config
  BY DEF ConfigInv, TypeOK
<1>2. ASSUME NEW s \in Settings, apiConfigSave(s) PROVE ConfigInv'
  <2> DEFINE new == [cfg EXCEPT !.set = s]
  <2>1. new \in Config /\ new.keys = cfg.keys /\ new.used = cfg.used
    BY <1>1 DEF Config, Setting
  <2>2. Begin("save", NoKey, new)
    BY <1>2 DEF apiConfigSave
  <2> HIDE DEF new
  <2>3. [kind |-> "save", step |-> "write", key |-> NoKey, old |-> cfg, new |-> new] \in Op
    BY <1>1, <2>1 DEF Op
  <2>4. QED
    BY <2>1, <2>2, <2>3, BeginInv DEF KeyKinds
<1>3. ASSUME NEW k \in KeyIDs, apiAPIKeyCreate(k) PROVE ConfigInv'
  <2> DEFINE new == [cfg EXCEPT !.keys[k] = "active"]
  <2>1. /\ new \in Config /\ new.set = cfg.set /\ new.used = cfg.used
        /\ \A j \in KeyIDs : new.keys[j] = IF j = k THEN Result("create") ELSE cfg.keys[j]
    BY <1>1 DEF Config, Result
  <2>2. Begin("create", k, new)
    BY <1>3 DEF apiAPIKeyCreate
  <2> HIDE DEF new
  <2>3. [kind |-> "create", step |-> "write", key |-> k, old |-> cfg, new |-> new] \in Op
    BY <1>1, <2>1 DEF Op
  <2>4. QED
    BY <2>1, <2>2, <2>3, BeginInv DEF KeyKinds
<1>4. ASSUME NEW k \in KeyIDs, apiAPIKeyRevoke(k) PROVE ConfigInv'
  <2> DEFINE new == [cfg EXCEPT !.keys[k] = "revoked"]
  <2>1. /\ new \in Config /\ new.set = cfg.set /\ new.used = cfg.used
        /\ \A j \in KeyIDs : new.keys[j] = IF j = k THEN Result("revoke") ELSE cfg.keys[j]
    BY <1>1 DEF Config, Result
  <2>2. Begin("revoke", k, new)
    BY <1>4 DEF apiAPIKeyRevoke
  <2> HIDE DEF new
  <2>3. [kind |-> "revoke", step |-> "write", key |-> k, old |-> cfg, new |-> new] \in Op
    BY <1>1, <2>1 DEF Op
  <2>4. QED
    BY <2>1, <2>2, <2>3, BeginInv DEF KeyKinds
<1>5. ASSUME NEW k \in KeyIDs, apiAPIKeyDelete(k) PROVE ConfigInv'
  <2> DEFINE new == [cfg EXCEPT !.keys[k] = "absent", !.used = @ \ {k}]
  <2>1. /\ new \in Config /\ new.set = cfg.set /\ new.used = cfg.used \ {k}
        /\ \A j \in KeyIDs : new.keys[j] = IF j = k THEN Result("delete") ELSE cfg.keys[j]
    BY <1>1 DEF Config, Result
  <2>2. Begin("delete", k, new)
    BY <1>5 DEF apiAPIKeyDelete
  <2> HIDE DEF new
  <2>3. [kind |-> "delete", step |-> "write", key |-> k, old |-> cfg, new |-> new] \in Op
    BY <1>1, <2>1 DEF Op
  <2>4. \A j \in cfg.used : j \in new.used \/ new.keys[j] = "absent"
    BY <1>1, <2>1 DEF Config, Result
  <2>5. QED
    BY <2>1, <2>2, <2>3, <2>4, BeginInv DEF KeyKinds
<1>6. ASSUME upgradeWebUIPasswordHash PROVE ConfigInv'
  <2> DEFINE new == [cfg EXCEPT !.hash = "salted"]
  <2>1. new \in Config /\ new.set = cfg.set /\ new.keys = cfg.keys /\ new.used = cfg.used
    BY <1>1 DEF Config
  <2>2. Begin("upgrade", NoKey, new)
    BY <1>6 DEF upgradeWebUIPasswordHash
  <2> HIDE DEF new
  <2>3. [kind |-> "upgrade", step |-> "write", key |-> NoKey, old |-> cfg, new |-> new] \in Op
    BY <1>1, <2>1 DEF Op
  <2>4. QED
    BY <2>1, <2>2, <2>3, BeginInv DEF KeyKinds
<1>7. QED
  BY <1>2, <1>3, <1>4, <1>5, <1>6

\* A handler that changes neither s.cfg nor the answers moves to its next step.
LEMMA StepInv ==
  ASSUME ConfigInv, Up, op.kind # "none", op' \in Op, OpOK', ViewOK', disk' \in Config,
         global' \in Config, notice' \in BOOLEAN,
         UNCHANGED <<proc, cfg, ttl, reader, checker, req, answered>>
  PROVE  ConfigInv'
<1> USE DEF ConfigInv
<1>1. TypeOK'
  BY DEF TypeOK
<1>2. FileOK' /\ ReqOK' /\ Up'
  BY Constants DEF FileOK, ReqOK, Up
<1>3. QED
  BY <1>1, <1>2

\* The file is replaced.
LEMMA RenameInv == ConfigInv /\ Rename => ConfigInv'
<1> SUFFICES ASSUME ConfigInv, Rename PROVE ConfigInv'
  OBVIOUS
<1>1. /\ Up /\ op \in Op /\ op.kind # "none" /\ op.step = "write" /\ disk' = op.new
      /\ op' = [op EXCEPT !.step = "publish"]
      /\ UNCHANGED <<proc, global, cfg, ttl, notice, reader, checker, req, answered>>
  BY DEF ConfigInv, Rename, Doing, TypeOK
<1>2. /\ op' \in Op /\ op'.kind = op.kind /\ op'.step = "publish" /\ op'.key = op.key
      /\ op'.old = op.old /\ op'.new = op.new /\ op.new \in Config
  BY <1>1 DEF Op
<1>3. OpOK'
  BY <1>1, <1>2 DEF ConfigInv, OpOK
<1>4. ViewOK'
  BY <1>1, <1>2 DEF ConfigInv, ViewOK, Told
<1>5. QED
  BY <1>1, <1>2, <1>3, <1>4, StepInv DEF ConfigInv, TypeOK

\* The snapshot is published.
LEMMA PublishInv == ConfigInv /\ Publish => ConfigInv'
<1> SUFFICES ASSUME ConfigInv, Publish PROVE ConfigInv'
  OBVIOUS
<1>1. /\ Up /\ op \in Op /\ op.kind # "none" /\ op.step = "publish" /\ global' = op.new
      /\ op' = [op EXCEPT !.step = "install"] /\ disk = op.new
      /\ UNCHANGED <<proc, disk, cfg, ttl, notice, reader, checker, req, answered>>
  BY DEF ConfigInv, Publish, Doing, TypeOK, ViewOK
<1>2. /\ op' \in Op /\ op'.kind = op.kind /\ op'.step = "install" /\ op'.key = op.key
      /\ op'.old = op.old /\ op'.new = op.new /\ op.new \in Config
  BY <1>1 DEF Op
<1>3. OpOK'
  BY <1>1, <1>2 DEF ConfigInv, OpOK
<1>4. ViewOK'
  BY <1>1, <1>2 DEF ConfigInv, ViewOK, Told
<1>5. QED
  BY <1>1, <1>2, <1>3, <1>4, StepInv DEF ConfigInv, TypeOK

\* The handler gives up, or is done with its filter.
LEMMA EndInv == ConfigInv /\ (SaveFails \/ Applied) => ConfigInv'
<1> SUFFICES ASSUME ConfigInv, SaveFails \/ Applied PROVE ConfigInv'
  OBVIOUS
<1>1. /\ Up /\ op.kind # "none" /\ op.step \in {"write", "apply"} /\ op' = NoOp
      /\ notice' \in BOOLEAN
      /\ UNCHANGED <<proc, disk, global, cfg, ttl, reader, checker, req, answered>>
  BY DEF ConfigInv, SaveFails, Applied, Doing, TypeOK
<1>2. disk \in Config /\ global \in Config
  BY <1>1 DEF ConfigInv, TypeOK, Up
<1>3. OpOK' /\ op' \in Op
  BY <1>1, Constants DEF OpOK, NoOp, KeyKinds
<1>4. ViewOK'
  BY <1>1 DEF ConfigInv, ViewOK, Told, Same, Stored, NoOp
<1>5. QED
  BY <1>1, <1>2, <1>3, <1>4, StepInv

\* The roll-back begins: it would bring the old settings back, and no old keys.
LEMMA ApplyFailsInv == ConfigInv /\ ApplyFails => ConfigInv'
<1> SUFFICES ASSUME ConfigInv, ApplyFails PROVE ConfigInv'
  OBVIOUS
<1>1. /\ Up /\ op \in Op /\ op.kind = "save" /\ op.step = "apply"
      /\ op' = [op EXCEPT !.kind = "undo", !.step = "write", !.new = op.old]
      /\ UNCHANGED <<proc, disk, global, cfg, ttl, notice, reader, checker, req, answered>>
  BY DEF ConfigInv, ApplyFails, Doing, TypeOK, OpOK
<1>2. /\ op' \in Op /\ op'.kind = "undo" /\ op'.step = "write" /\ op'.key = op.key
      /\ op'.new = op.old
  BY <1>1 DEF Op
<1>3. OpOK'
  BY <1>1, <1>2 DEF ConfigInv, OpOK, KeyKinds
<1>4. ViewOK'
  BY <1>1, <1>2 DEF ConfigInv, ViewOK, Told, Same, Stored
<1>5. QED
  BY <1>1, <1>2, <1>3, <1>4, StepInv DEF ConfigInv, TypeOK, Up

\* The new configuration is in force and the administrator is told.
LEMMA InstallInv == ConfigInv /\ Install => ConfigInv'
<1> SUFFICES ASSUME ConfigInv, Install PROVE ConfigInv'
  OBVIOUS
<1> USE DEF ConfigInv
<1>1. /\ Up /\ op \in Op /\ op.kind # "none" /\ op.step = "install"
      /\ disk = op.new /\ global = op.new /\ cfg' = op.new /\ answered' = Answer
      /\ UNCHANGED <<proc, disk, global, notice, reader, checker, req>>
      /\ ttl = cfg.set.ttl /\ Told(cfg)
  BY DEF Install, Doing, TypeOK, ViewOK
<1>2. op.new \in Config /\ op.new.set \in Setting /\ op.new.keys \in [KeyIDs -> {"absent", "active", "revoked"}]
  BY <1>1 DEF Op, Config
<1>3. ttl' = cfg'.set.ttl
  <2>1. CASE op.kind \in {"save", "undo"}
    BY <1>1, <2>1 DEF Install
  <2>2. CASE op.kind \notin {"save", "undo"}
    <3>1. op.new.set = cfg.set
      BY <1>1, <2>2 DEF OpOK, Op, KeyKinds
    <3>2. QED
      BY <1>1, <2>2, <3>1 DEF Install
  <2>3. QED
    BY <2>1, <2>2
<1>4. /\ answered' \in [KeyIDs -> {"new", "active", "revoked", "gone"}]
      /\ \A k \in KeyIDs : op.new.keys[k] = Status(answered'[k])
  <2>1. CASE op.kind \in KeyKinds
    <3>1. /\ op.key \in KeyIDs
          /\ \A k \in KeyIDs : op.new.keys[k] = IF k = op.key THEN Result(op.kind) ELSE cfg.keys[k]
      BY <2>1 DEF OpOK
    <3>2. \A k \in KeyIDs : k # op.key => answered'[k] = answered[k]
      BY <1>1 DEF Answer
    <3>3. answered'[op.key] \in {"active", "revoked", "gone"} /\ Status(answered'[op.key]) = Result(op.kind)
      BY <1>1, <2>1, <3>1 DEF Answer, KeyKinds, Status, Result
    <3>4. \A k \in KeyIDs : answered'[k] \in {"new", "active", "revoked", "gone"}
      BY <3>2, <3>3 DEF TypeOK
    <3> DEFINE told(k) == IF k # op.key THEN answered[k]
                          ELSE CASE op.kind = "create" -> "active"
                                 [] op.kind = "revoke" -> "revoked"
                                 [] op.kind = "delete" -> "gone"
    <3>5. answered' = [k \in KeyIDs |-> told(k)]
      BY <1>1 DEF Answer
    <3> HIDE DEF told
    <3>6. answered' \in [KeyIDs -> {"new", "active", "revoked", "gone"}]
      BY <3>4, <3>5
    <3>7. QED
      BY <1>1, <3>1, <3>2, <3>3, <3>6 DEF Told
  <2>2. CASE op.kind \notin KeyKinds
    <3>1. op.key = NoKey /\ op.new.keys = cfg.keys
      BY <1>1, <2>2 DEF OpOK, Op, KeyKinds
    <3>2. \A k \in KeyIDs : answered'[k] = answered[k]
      BY <1>1, <3>1, ConfigAssumption DEF Answer
    <3>3. answered' = answered
      BY <1>1, <3>1, ConfigAssumption DEF Answer, TypeOK
    <3>4. QED
      BY <1>1, <3>1, <3>3 DEF Told, TypeOK
  <2>3. QED
    BY <2>1, <2>2
<1>5. op' = (IF op.kind = "save" THEN [op EXCEPT !.step = "apply"] ELSE NoOp)
  BY DEF Install
<1>6. op' \in Op /\ op'.step \in {"write", "apply"} /\ OpOK'
  <2>1. CASE op.kind = "save"
    <3>1. /\ op' \in Op /\ op'.kind = "save" /\ op'.step = "apply" /\ op'.key = op.key
          /\ op'.old = op.old /\ op'.new = op.new
      BY <1>1, <1>5, <2>1 DEF Op
    <3>2. op.key = NoKey /\ op.old.keys = op.new.keys /\ op.old.used = op.new.used
      BY <2>1 DEF OpOK
    <3>3. QED
      BY <1>1, <3>1, <3>2 DEF OpOK, KeyKinds
  <2>2. CASE op.kind # "save"
    BY <1>5, <2>2, Constants DEF OpOK, NoOp, KeyKinds
  <2>3. QED
    BY <2>1, <2>2
<1>7. ViewOK'
  <2>1. Told(cfg)' /\ Same(global, cfg)' /\ Stored(cfg)'
    BY <1>1, <1>4 DEF Told, Same, Stored, Decoded
  <2>2. QED
    BY <1>3, <1>6, <2>1 DEF ViewOK
<1>8. TypeOK'
  BY <1>1, <1>2, <1>3, <1>4, <1>6 DEF TypeOK
<1>9. FileOK' /\ ReqOK' /\ Up'
  BY <1>1, <1>2, Constants DEF FileOK, ReqOK, Up
<1>10. QED
  BY <1>6, <1>7, <1>8, <1>9

\* A request whose key is still good leaves its mark in s.cfg.
LEMMA MarkInv ==
  ASSUME ConfigInv, NEW r \in Requests, markReadOnlyAPIKeyUsed(r)
  PROVE  ConfigInv'
<1> USE DEF ConfigInv
<1>1. /\ Up /\ op = NoOp /\ cfg \in Config /\ req[r] \in Req /\ req[r].at = "allowed"
      /\ req[r].key \in KeyIDs
      /\ UNCHANGED <<proc, disk, global, ttl, op, notice, reader, checker, answered>>
  BY DEF markReadOnlyAPIKeyUsed, Unlocked, OpOK, TypeOK, ReqOK
<1>2. cfg' \in Config /\ Same(cfg', cfg)
  BY <1>1 DEF markReadOnlyAPIKeyUsed, Config, Same
<1>3. req' \in [Requests -> Req] /\ ReqOK'
  <2>1. \E at \in {"serving", "idle"} : MoveTo(r, at)
    BY DEF markReadOnlyAPIKeyUsed
  <2>2. PICK at \in {"serving", "idle"} : MoveTo(r, at)
    BY <2>1
  <2> DEFINE q == IF at = "idle" THEN NoReq ELSE [req[r] EXCEPT !.at = at]
  <2>3. q \in Req /\ (q.at # "idle" => q.key \in KeyIDs)
    BY <1>1, <2>2, Constants DEF Req, NoReq
  <2>4. req' = [req EXCEPT ![r] = q]
    BY <2>2 DEF MoveTo
  <2> HIDE DEF q
  <2>5. QED
    BY <2>3, <2>4 DEF TypeOK, ReqOK
<1>4. TypeOK'
  BY <1>1, <1>2, <1>3 DEF TypeOK
<1>5. OpOK' /\ FileOK' /\ Up'
  BY <1>1 DEF OpOK, NoOp, KeyKinds, FileOK, Up
<1>6. ViewOK'
  BY <1>1, <1>2 DEF ViewOK, Told, Same, Stored, NoOp
<1>7. QED
  BY <1>3, <1>4, <1>5, <1>6

\* The other steps of a request and those of the checker.
LEMMA OthersInv ==
  ASSUME ConfigInv,
         \/ TakeNotice \/ ReadConfig \/ StartBatch
         \/ \E r \in Readers : UpdateConfig(r)
         \/ \E r \in Requests :
              \/ \E k \in KeyIDs : readOnlyAPIKeyMatch(r, k)
              \/ allow(r) \/ Served(r)
  PROVE  ConfigInv'
<1>1. /\ req \in [Requests -> Req] /\ ReqOK /\ global.set \in Setting
      /\ reader \in [Readers -> Setting \cup {Idle, Unread}] /\ checker \in Setting
      /\ notice \in BOOLEAN
  BY DEF ConfigInv, TypeOK, Config
<1>2. CASE TakeNotice \/ ReadConfig \/ StartBatch \/ \E r \in Readers : UpdateConfig(r)
  <2>1. ReqOK' /\ req' = req
    BY <1>1, <1>2 DEF ReqOK, TakeNotice, ReadConfig, StartBatch, UpdateConfig
  <2>2. /\ notice' \in BOOLEAN /\ checker' \in Setting
        /\ reader' \in [Readers -> Setting \cup {Idle, Unread}]
    BY <1>1, <1>2 DEF TakeNotice, ReadConfig, StartBatch, UpdateConfig
  <2>3. UNCHANGED <<proc, disk, global, cfg, ttl, op, answered>>
    BY <1>2 DEF TakeNotice, ReadConfig, StartBatch, UpdateConfig
  <2>4. QED
    BY <1>1, <2>1, <2>2, <2>3, QuietInv
<1>3. ASSUME NEW r \in Requests, NEW k \in KeyIDs, readOnlyAPIKeyMatch(r, k) PROVE ConfigInv'
  <2>1. req' \in [Requests -> Req] /\ ReqOK'
    BY <1>1, <1>3 DEF readOnlyAPIKeyMatch, Req, ReqOK
  <2>2. QED
    BY <1>1, <1>3, <2>1, QuietInv DEF readOnlyAPIKeyMatch
<1>4. ASSUME NEW r \in Requests, allow(r) \/ Served(r) PROVE ConfigInv'
  <2>1. req[r].at # "idle" /\ req[r] \in Req /\ req[r].key \in KeyIDs
    BY <1>1, <1>4 DEF allow, Served, ReqOK
  <2>2. PICK at \in {"allowed", "idle"} : MoveTo(r, at)
    BY <1>4 DEF allow, Served
  <2> DEFINE q == IF at = "idle" THEN NoReq ELSE [req[r] EXCEPT !.at = at]
  <2>3. q \in Req /\ (q.at # "idle" => q.key \in KeyIDs)
    BY <2>1, <2>2, Constants DEF Req, NoReq
  <2>4. req' = [req EXCEPT ![r] = q]
    BY <2>2 DEF MoveTo
  <2> HIDE DEF q
  <2>5. req' \in [Requests -> Req] /\ ReqOK'
    BY <1>1, <2>3, <2>4 DEF ReqOK
  <2>6. QED
    BY <1>1, <1>4, <2>5, QuietInv DEF allow, Served
<1>5. QED
  BY <1>2, <1>3, <1>4

\* ConfigInv is inductive.
THEOREM ConfigInvariant == Spec => []ConfigInv
<1>1. ASSUME ConfigInv, UNCHANGED vars PROVE ConfigInv'
  <2>1. ReqOK'
    BY <1>1 DEF vars, ConfigInv, ReqOK
  <2>2. QED
    BY <1>1, <2>1, QuietInv DEF vars, ConfigInv, TypeOK
<1>2. ConfigInv /\ [Next]_vars => ConfigInv'
  BY <1>1, LoadFileInv, BootstrapInv, ImportKeysInv, CrashInv, HandlersInv, RenameInv, EndInv,
     PublishInv, InstallInv, ApplyFailsInv, OthersInv, MarkInv DEF Next
<1>3. QED
  BY InitInv, <1>2, PTL DEF Spec

\* The types of the configuration, its handlers and its readers.
THEOREM ConfigTypeOK == Spec => []TypeOK
  BY ConfigInvariant, PTL DEF ConfigInv

\* apiConfigSave and the key handlers: when s.cfgMu is free the views agree,
\* the file's settings as a restart reads them.
THEOREM ViewsAlwaysAgree == Spec => []ViewsAgree
<1>1. ConfigInv => ViewsAgree
  BY DEF ConfigInv, OpOK, NoOp, ViewOK, Same, Stored, ViewsAgree, Unlocked
<1>2. QED
  BY <1>1, ConfigInvariant, PTL

\* apiAPIKeyCreate, Revoke and Delete: their answers stay true.
THEOREM AnswersHold == Spec => []KeysAsAnswered
<1>1. ConfigInv => KeysAsAnswered
  BY DEF ConfigInv, ViewOK, Told, KeysAsAnswered, Unlocked
<1>2. QED
  BY <1>1, ConfigInvariant, PTL

\* apiKeyMiddleware: a key that was revoked or deleted opens nothing.
THEOREM RevokedShutOut == Spec => RevokedServesNothing
<1> DEFINE Shut == \A r \in Requests :
      req[r].at # "serving" /\ req'[r].at = "serving" => answered[req[r].key] = "active"
<1>1. ASSUME ConfigInv, Next, NEW r \in Requests, req[r].at # "serving", req'[r].at = "serving"
      PROVE  answered[req[r].key] = "active"
  <2>1. req \in [Requests -> Req]
    BY <1>1 DEF ConfigInv, TypeOK
  <2>2. req' # req
    BY <1>1
  <2>3. ~Crash
    BY <1>1 DEF Crash, NoReq
  <2>4. PICK q \in Requests :
          \/ \E k \in KeyIDs : readOnlyAPIKeyMatch(q, k)
          \/ allow(q) \/ markReadOnlyAPIKeyUsed(q) \/ Served(q)
    BY <1>1, <2>2, <2>3 DEF Next, LoadFile, Bootstrap, ImportKeys, apiConfigSave, apiAPIKeyCreate,
       apiAPIKeyRevoke, apiAPIKeyDelete, upgradeWebUIPasswordHash, Begin, Rename, SaveFails, Publish,
       Install, Applied, ApplyFails, TakeNotice, ReadConfig, StartBatch, UpdateConfig
  <2>5. ~ \E k \in KeyIDs : readOnlyAPIKeyMatch(q, k)
    BY <1>1, <2>1 DEF readOnlyAPIKeyMatch
  <2>6. ~allow(q) /\ ~Served(q)
    BY <1>1, <2>1 DEF allow, Served, MoveTo, NoReq, Req
  <2>7. markReadOnlyAPIKeyUsed(q) /\ q = r /\ cfg.keys[req[r].key] = "active"
    BY <1>1, <2>1, <2>4, <2>5, <2>6 DEF markReadOnlyAPIKeyUsed, MoveTo, NoReq
  <2>8. req[r].key \in KeyIDs /\ Told(cfg)
    BY <1>1, <2>7 DEF ConfigInv, ReqOK, ViewOK, markReadOnlyAPIKeyUsed, Unlocked
  <2>9. QED
    BY <2>7, <2>8 DEF Told, Status
<1>2. ConfigInv /\ [Next]_vars => [Shut]_vars
  BY <1>1
<1>3. QED
  BY <1>2, ConfigInvariant, PTL DEF Spec, RevokedServesNothing

\* markReadOnlyAPIKeyUsed: LastUsedAt survives every save and roll-back.
THEOREM UsageRemembered == Spec => UsageKept
<1> DEFINE Keeps == \A k \in cfg.used :
                      Up /\ proc' = "up" /\ cfg'.keys[k] # "absent" => k \in cfg'.used
<1>1. ASSUME ConfigInv, Next PROVE Keeps
  <2>1. CASE Install
    BY <1>1, <2>1 DEF Install, Doing, ConfigInv, OpOK
  <2>2. CASE \E r \in Requests : markReadOnlyAPIKeyUsed(r)
    <3>1. cfg \in Config
      BY <1>1 DEF ConfigInv, TypeOK
    <3>2. QED
      BY <2>2, <3>1 DEF markReadOnlyAPIKeyUsed, Config
  <2>3. CASE LoadFile \/ ImportKeys
    BY <2>3 DEF LoadFile, ImportKeys, Up
  <2>4. CASE UNCHANGED cfg
    BY <2>4
  <2>5. QED
    BY <1>1, <2>1, <2>2, <2>3, <2>4 DEF Next, Bootstrap, Crash, apiConfigSave, apiAPIKeyCreate,
       apiAPIKeyRevoke, apiAPIKeyDelete, upgradeWebUIPasswordHash, Begin, Rename, SaveFails, Publish,
       Applied, ApplyFails, TakeNotice, ReadConfig, StartBatch, UpdateConfig, readOnlyAPIKeyMatch,
       allow, Served
<1>2. ConfigInv /\ [Next]_vars => [Keeps]_vars
  BY <1>1
<1>3. QED
  BY <1>2, ConfigInvariant, PTL DEF Spec, UsageKept
=============================================================================
