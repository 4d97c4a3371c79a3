-------------------------- MODULE ConfigPropagation --------------------------
(***************************************************************************)
(* How a change of a device in the model reaches the collector that        *)
(* monitors it.  The hub syncs its connection to the database, then polls  *)
(* it for invalidated objects (ZenHub/zenhub.py, invalidations.py), and    *)
(* its configuration service pushes what changed (services/config.py of    *)
(* ZenCollector), as its connection last saw it, through the               *)
(* timers of Procrastinator and BatchNotifier.  The collector              *)
(* (ZenCollector/daemon.py, config.py) applies the pushes, and its loader  *)
(* task now and then fetches everything, which a hub worker computes from  *)
(* the database while pushes go on.                                        *)
(*                                                                         *)
(* One collector and its service; a configuration is its version, 0 where  *)
(* there is none.  A device is "here" (this collector monitors it), "near" *)
(* (not monitored, but pushes still tell this collector so), "away" (moved *)
(* on to a third collector, of which this one is not told) or "gone".      *)
(* Objects found by several polls wait in one set, each dispatched once.   *)
(* Left out: the tasks made of a configuration (CollectorScheduler), the   *)
(* preferences and thresholds the loader fetches first, components, whose  *)
(* object ids are turned into their devices', the checksum filters, and    *)
(* single-device and non-cycling runs.  A device whose configuration could *)
(* never be made is outside the model, and deletions do not raise.         *)
(***************************************************************************)
EXTENDS Naturals, Sequences, FiniteSets

CONSTANTS
  Movable,     \* bound: devices that change by themselves
  Device,      \* devices, all of one device class
  Class,       \* the object id of that class
  Prefs,       \* the object id of something every device depends on
  BatchSize,   \* devices the BatchNotifier goes through at a time
  MaxChanges,  \* bound: the model changes while fewer have been counted
  Budget       \* bound: changes and what fails: connections, polls, calls

ASSUME PropagationConstants ==
  Class \notin Device /\ Prefs \notin Device /\ Class # Prefs
  /\ Movable \subseteq Device
  /\ BatchSize \in Nat \ {0} /\ MaxChanges \in Nat /\ Budget \in Nat

VARIABLES
  db,         \* the committed devices: version and place
  changes,    \* changes so far
  view,       \* the devices as the hub sees them
  dirty,      \* objects changed since the hub's last poll
  polling,    \* the hub has synced and is about to poll
  oids,       \* invalidated objects to dispatch
  waiting, later, nows,             \* _procrastinator of the service
  queued, current, rest, timers,    \* BATCH_NOTIFIER
  reconfig,   \* _reconfigProcrastinator has its device and its timer
  connected,  \* the collector is connected to the hub
  channel,    \* messages to the collector
  faults,     \* faults so far
  registered, \* the loader task is in the collector's scheduler
  loader,     \* what the loader does
  answer,     \* the configurations the worker found
  todo,       \* devices _updateDeviceConfigs has not come to
  rebuild,    \* reconfigureTimeout is active
  config,     \* the configurations the collector has
  suspect,    \* devices of which a push was lost, or crossed a load
  raced,      \* those it happened to since the load in course began
  missed      \* history: devices polled, or about to be, but not synced

waitVars == <<waiting, later, nows>>
batchVars == <<queued, current, rest, timers>>
hubVars == <<view, dirty, polling, oids, waitVars, batchVars, reconfig>>
loadVars == <<registered, loader, answer, todo, rebuild>>
vars == <<db, changes, hubVars, connected, channel, faults, loadVars, config,
          suspect, raced, missed>>

Wait == INSTANCE Procrastinator
Batch == INSTANCE BatchNotifier

Oid == Device \cup {Class, Prefs}
Version == 0..(MaxChanges + 1)
Object == [ver : Version, place : {"here", "near", "away", "gone"}]
Wanted(d) == IF db[d].place = "here" THEN db[d].ver ELSE 0

NoAnswer == [d \in Device |-> 0]

Init ==
  /\ \E away \in SUBSET Movable :
       db = [d \in Device |-> IF d \in away THEN [ver |-> 0, place |-> "away"]
                             ELSE [ver |-> 1, place |-> "here"]]
  /\ view = db
  /\ changes = 0 /\ dirty = {} /\ oids = {}
  /\ Wait!Init /\ Batch!Init
  /\ reconfig = FALSE /\ connected = TRUE /\ channel = <<>> /\ faults = 0
  /\ registered = TRUE /\ loader = "idle" /\ rebuild = FALSE
  /\ answer = NoAnswer /\ todo = {}
  /\ config = [d \in Device |-> 0] /\ suspect = Device /\ raced = {}
  /\ polling = FALSE /\ missed = {}

(* Devices are no longer known to be up to date, nor will they be when the *)
(* load in course, if there is one, is over.                               *)
Doubt(devices) ==
  /\ suspect' = suspect \cup devices
  /\ raced' = IF loader = "idle" THEN {} ELSE raced \cup devices
NoDoubt == UNCHANGED <<suspect, raced>>

Affected(objects) ==
  IF Class \in objects THEN Device ELSE objects \cap Device

Send(m) == channel' = IF connected THEN Append(channel, m) ELSE channel

-----------------------------------------------------------------------------
(* Changes of the model by other processes.  Those that concern all        *)
(* devices count twice.                                                    *)
Moves == {<<"here", "here">>, <<"here", "near">>, <<"here", "gone">>,
          <<"near", "here">>, <<"near", "away">>, <<"away", "here">>}

Changed(new, objects, cost) ==
  /\ changes < MaxChanges /\ changes + faults + cost <= Budget
  /\ changes' = changes + cost
  /\ db' = new /\ dirty' = dirty \cup objects
  /\ raced' = IF loader = "idle" THEN {} ELSE raced \cup Affected(objects)
  /\ missed' = IF polling THEN missed \cup Affected(objects) ELSE missed
  /\ UNCHANGED <<view, polling, oids, waitVars, batchVars, reconfig, connected,
                 channel, faults, loadVars, config, suspect>>

ChangeDevice ==
  \E d \in Movable, m \in Moves :
    /\ db[d].place = m[1]
    /\ Changed([db EXCEPT ![d] =
                  [ver |-> CASE m[2] = "here" -> changes + 2
                             [] m[2] = "gone" -> @.ver
                             [] OTHER -> 0,
                   place |-> m[2]]], {d}, 1)

ChangeClass ==
  Changed([d \in Device |-> IF db[d].place = "here"
                            THEN [db[d] EXCEPT !.ver = changes + 2]
                            ELSE db[d]], {Class}, 2)

ChangePrefs == Changed(db, {Prefs}, 2)

-----------------------------------------------------------------------------
(* Something goes wrong.                                                   *)
Fault == changes + faults < Budget /\ faults' = faults + 1

(* processQueue first syncs the connection, which then sees all that was   *)
(* committed, ...  Once no change can come any more (within the bound), a  *)
(* round that would find nothing is left out.                              *)
Sync ==
  /\ ~polling /\ polling' = TRUE
  /\ \/ view # db \/ dirty # {} \/ missed # {}
     \/ changes < MaxChanges /\ changes + faults < Budget
  /\ view' = db /\ missed' = {}
  /\ NoDoubt
  /\ UNCHANGED <<db, changes, dirty, oids, waitVars, batchVars, reconfig,
                 connected, channel, faults, loadVars, config>>

(* ... then doProcessQueue polls another instance of the storage and puts  *)
(* what has changed into line.  What was committed since the sync is       *)
(* found too, and not yet seen by the connection.                          *)
Poll ==
  /\ polling /\ polling' = FALSE
  /\ oids' = oids \cup dirty /\ dirty' = {}
  /\ NoDoubt
  /\ UNCHANGED <<db, changes, view, waitVars, batchVars, reconfig, connected,
                 channel, faults, loadVars, config, missed>>

(* Notifications are paused, or there is an error once the poll is done:   *)
(* what it found is dropped.                                               *)
PausedPoll ==
  /\ polling /\ polling' = FALSE
  /\ Fault
  /\ dirty # {} /\ dirty' = {}
  /\ Doubt(Affected(dirty))
  /\ UNCHANGED <<db, changes, view, oids, waitVars, batchVars, reconfig,
                 connected, channel, loadVars, config, missed>>

(* async_syncdb has run out of attempts, which it only logs: the poll goes *)
(* on, and finds objects the connection has not seen change.               *)
UnsyncedPoll ==
  /\ ~polling
  /\ Fault
  /\ dirty # {} /\ dirty' = {} /\ oids' = oids \cup dirty
  /\ missed' = missed \cup Affected(dirty)
  /\ NoDoubt
  /\ UNCHANGED <<db, changes, view, polling, waitVars, batchVars, reconfig,
                 connected, channel, loadVars, config>>

(* The subscribers of the service, for one object: notifyAffectedDevices   *)
(* for a class, _reconfigureIfNotify, deviceDeleted, or deviceUpdated.     *)
dispatch(o) ==
  IF o = Class THEN Batch!notify_subdevices /\ NoDoubt
                    /\ UNCHANGED <<waitVars, reconfig, channel>>
  ELSE IF o = Prefs THEN reconfig' = TRUE /\ NoDoubt
                         /\ UNCHANGED <<waitVars, batchVars, channel>>
  ELSE IF view[o].place = "gone"
       THEN /\ Send([kind |-> "delete", dev |-> o, ver |-> 0])
            /\ IF connected THEN NoDoubt ELSE Doubt({o})
            /\ UNCHANGED <<waitVars, batchVars, reconfig>>
       ELSE Wait!doLater({o}) /\ NoDoubt
            /\ UNCHANGED <<batchVars, reconfig, channel>>

Dispatch ==
  /\ ~polling
  /\ \E o \in oids : oids' = oids \ {o} /\ dispatch(o)
  /\ UNCHANGED <<db, changes, view, dirty, polling, connected, faults,
                 loadVars, config, missed>>

(* An object cannot be loaded or a subscriber raises: the rest of the      *)
(* batch is never dispatched.                                              *)
DispatchFails ==
  /\ ~polling
  /\ Fault
  /\ oids # {} /\ oids' = {}
  /\ Doubt(Affected(oids))
  /\ UNCHANGED <<db, changes, view, dirty, polling, waitVars, batchVars,
                 reconfig, connected, channel, loadVars, config, missed>>

(* The notifier's batch, each device of which is put off by the service.   *)
BatchCallback ==
  \E batch \in SUBSET Device, raises \in BOOLEAN :
    LET devices == {d \in Device : view[d].place # "gone"} IN
    /\ ~polling
    /\ IF raises THEN Fault ELSE UNCHANGED faults
    /\ Batch!callback(devices, batch, raises)
    /\ Wait!doLater(batch)
    /\ IF raises THEN Doubt(Device) ELSE NoDoubt
    /\ UNCHANGED <<db, changes, view, dirty, polling, oids, reconfig,
                   connected, channel, loadVars, config, missed>>

(* What _pushConfig sends of a device.  One that is here but of which no   *)
(* proxy can be made (_wrapFunction only logs it) is taken off the         *)
(* collector.  A device deleted since is still what it was when last seen, *)
(* if its configuration can be made at all.                                *)
Pushes(d, broken) ==
  LET update == [kind |-> "update", dev |-> d, ver |-> view[d].ver]
      delete == [kind |-> "delete", dev |-> d, ver |-> 0]
  IN CASE view[d].place = "here" -> {IF broken THEN delete ELSE update}
       [] view[d].place = "near" -> {delete}
       [] view[d].place = "gone" -> {update, delete}
       [] OTHER -> {}

(* _doNow with a device: _pushConfig tells the collector if it listens.    *)
Push ==
  /\ ~polling
  /\ \E d \in waiting, broken \in BOOLEAN :
       /\ IF broken THEN Fault /\ view[d].place = "here" ELSE UNCHANGED faults
       /\ Wait!doNow({d}, FALSE)
       /\ IF Pushes(d, broken) = {} THEN UNCHANGED channel
          ELSE \E m \in Pushes(d, broken) : Send(m)
       /\ IF /\ connected /\ ~broken /\ d \notin missed
             /\ view[d].place \in {"here", "near"}
          THEN NoDoubt ELSE Doubt({d})
  /\ UNCHANGED <<db, changes, view, dirty, polling, oids, batchVars, reconfig,
                 connected, loadVars, config, missed>>

(* _pushConfig raises: those that wait, wait for another change.           *)
PushFails ==
  /\ ~polling
  /\ Fault
  /\ \E d \in waiting : Wait!doNow({d}, TRUE)
  /\ Doubt(waiting)
  /\ UNCHANGED <<db, changes, view, dirty, polling, oids, batchVars, reconfig,
                 connected, channel, loadVars, config, missed>>

PushNothing ==
  /\ ~polling
  /\ waiting = {} /\ Wait!doNow({}, FALSE)
  /\ NoDoubt
  /\ UNCHANGED <<db, changes, view, dirty, polling, oids, batchVars, reconfig,
                 connected, channel, faults, loadVars, config, missed>>

pushReconfigure ==
  /\ ~polling
  /\ reconfig /\ reconfig' = FALSE
  /\ Send([kind |-> "reconfigure"])
  /\ NoDoubt
  /\ UNCHANGED <<db, changes, view, dirty, polling, oids, waitVars, batchVars,
                 connected, faults, loadVars, config, missed>>

-----------------------------------------------------------------------------
(* The connection: messages on their way are lost with it.  A call of the  *)
(* loader's fails; if it has another to make then, it fails with HubDown.  *)
ConnectionLost ==
  /\ Fault
  /\ connected /\ connected' = FALSE /\ channel' = <<>>
  /\ Doubt({channel[i].dev :
              i \in {k \in 1..Len(channel) :
                       channel[k].kind \in {"update", "delete"}}})
  /\ IF loader \in {"answering", "answered"}
     THEN loader' = "idle" /\ answer' = NoAnswer
          /\ registered' \in {FALSE, registered}
     ELSE UNCHANGED <<loader, answer, registered>>
  /\ UNCHANGED <<db, changes, hubVars, todo, rebuild, config, missed>>

gotPerspective ==
  /\ ~connected /\ connected' = TRUE
  /\ NoDoubt
  /\ UNCHANGED <<db, changes, hubVars, channel, faults, loadVars, config,
                 missed>>

-----------------------------------------------------------------------------
(* The loader task comes up while connected or not: HubDown is its end.    *)
(* A hub worker, which has just synced, collects the configurations, but   *)
(* for those it cannot make...                                             *)
getDeviceConfigs(broken) ==
  [d \in Device |-> IF d \in broken THEN 0 ELSE Wanted(d)]

doTask ==
  /\ registered /\ loader = "idle"
  /\ \E broken \in SUBSET {d \in Device : connected /\ db[d].place = "here"} :
       /\ IF broken = {} THEN UNCHANGED faults ELSE Fault
       /\ IF connected
          THEN loader' = "answering" /\ answer' = getDeviceConfigs(broken)
               /\ UNCHANGED registered
          ELSE registered' = FALSE /\ UNCHANGED <<loader, answer>>
       /\ raced' = broken /\ UNCHANGED suspect
  /\ UNCHANGED <<db, changes, hubVars, connected, channel, todo, rebuild,
                 config, missed>>

(* ... and the hub sends them, behind what was pushed meanwhile.           *)
Answer ==
  /\ loader = "answering" /\ loader' = "answered"
  /\ channel' = Append(channel, [kind |-> "configs"])
  /\ NoDoubt
  /\ UNCHANGED <<db, changes, hubVars, connected, faults, registered, answer,
                 todo, rebuild, config, missed>>

(* _processConfig: an empty list is not applied, nor is anything purged.   *)
processConfig ==
  LET found == {d \in Device : answer[d] # 0} IN
  /\ loader' = IF found = {} THEN "idle" ELSE "applying"
  /\ todo' = found
  /\ UNCHANGED <<registered, answer, rebuild, config>>

remote_updateDeviceConfig(m) ==
  config' = [config EXCEPT ![m.dev] = m.ver] /\ UNCHANGED loadVars

remote_deleteDevice(m) ==
  config' = [config EXCEPT ![m.dev] = 0] /\ UNCHANGED loadVars

remote_notifyConfigChanged ==
  rebuild' = TRUE /\ UNCHANGED <<registered, loader, answer, todo, config>>

Deliver ==
  /\ channel # <<>> /\ channel' = Tail(channel)
  /\ LET m == Head(channel) IN
       CASE m.kind = "update" -> remote_updateDeviceConfig(m)
         [] m.kind = "delete" -> remote_deleteDevice(m)
         [] m.kind = "reconfigure" -> remote_notifyConfigChanged
         [] m.kind = "configs" -> processConfig
  /\ NoDoubt
  /\ UNCHANGED <<db, changes, hubVars, connected, faults, missed>>

(* _updateConfig raises, when it has removed the old tasks or later.       *)
DeliverFails ==
  /\ Fault
  /\ channel # <<>> /\ channel' = Tail(channel)
  /\ LET m == Head(channel) IN
       /\ m.kind = "update"
       /\ \E ver \in {0, m.ver} :
            config' = [config EXCEPT ![m.dev] = ver]
       /\ Doubt({m.dev})
  /\ UNCHANGED <<db, changes, hubVars, connected, loadVars, missed>>

(* _updateDeviceConfigs: one device at a time, time for others in between. *)
UpdateNext ==
  /\ loader = "applying"
  /\ \E d \in todo :
       /\ config' = [config EXCEPT ![d] = answer[d]]
       /\ todo' = todo \ {d}
  /\ NoDoubt
  /\ UNCHANGED <<db, changes, hubVars, connected, channel, faults, registered,
                 loader, answer, rebuild, missed>>

(* Mutant of purgeOmittedDevices: nothing is purged.                       *)
LaxPurgeOmittedDevices ==
  /\ loader = "applying" /\ todo = {} /\ loader' = "idle"
  /\ suspect' = raced /\ raced' = {} /\ answer' = NoAnswer
  /\ UNCHANGED <<db, changes, hubVars, connected, channel, faults, registered,
                 todo, rebuild, config, missed>>

(* At the end the devices that were not in the list are deleted.           *)
purgeOmittedDevices ==
  /\ loader = "applying" /\ todo = {} /\ loader' = "idle"
  /\ config' = [d \in Device |-> IF answer[d] = 0 THEN 0 ELSE config[d]]
  /\ suspect' = raced /\ raced' = {} /\ answer' = NoAnswer
  /\ UNCHANGED <<db, changes, hubVars, connected, channel, faults, registered,
                 todo, rebuild, missed>>

(* The hub answers with an error, or _updateConfig raises for a device:    *)
(* _handleError ends the load, with the devices still to do left as they   *)
(* were and nothing purged.                                                *)
LoadFails ==
  /\ Fault
  /\ loader' = "idle" /\ answer' = NoAnswer /\ todo' = {} /\ raced' = {}
  /\ \/ loader = "answering" /\ UNCHANGED <<config, suspect>>
     \/ /\ loader = "applying"
        /\ \E d \in todo :
             /\ \E ver \in {0, answer[d]} :
                  config' = [config EXCEPT ![d] = ver]
             /\ suspect' = suspect \cup raced \cup {d}
  /\ UNCHANGED <<db, changes, hubVars, connected, channel, registered, rebuild,
                 missed>>

(* 30 seconds after notifyConfigChanged a new loader is registered, which  *)
(* waits for the end of the old one.                                       *)
rebuildConfig ==
  /\ rebuild /\ rebuild' = FALSE /\ registered' = TRUE
  /\ NoDoubt
  /\ UNCHANGED <<db, changes, hubVars, connected, channel, faults, loader,
                 answer, todo, config, missed>>

-----------------------------------------------------------------------------
processQueue == Sync \/ Poll
Hub == Dispatch \/ BatchCallback \/ pushReconfigure
Pushing == Push \/ PushNothing
Collector == Deliver \/ UpdateNext \/ purgeOmittedDevices
Loading == doTask \/ Answer

Next ==
  \/ ChangeDevice \/ ChangeClass \/ ChangePrefs
  \/ processQueue \/ Hub \/ Pushing \/ Collector \/ Loading
  \/ rebuildConfig
  \/ PausedPoll \/ UnsyncedPoll \/ DispatchFails \/ PushFails
  \/ DeliverFails \/ LoadFails
  \/ ConnectionLost \/ gotPerspective

(* Timers come, the reactors serve what is ready, the loader is run every  *)
(* so often and the client factory reconnects.  The hub syncs and polls in *)
(* one go, half a minute apart, and has time for the rest in between.      *)
(* Changes and faults need not happen.                                     *)
Fairness ==
  /\ WF_vars(processQueue) /\ SF_vars(Hub) /\ SF_vars(Pushing)
  /\ WF_vars(Collector)
  /\ WF_vars(Loading) /\ WF_vars(rebuildConfig) /\ WF_vars(gotPerspective)

Spec == Init /\ [][Next]_vars /\ Fairness

-----------------------------------------------------------------------------
(* The variables have their types, the notifier has exactly one timer when *)
(* it has work, and while nothing failed a waiting device has one too.     *)
TypeOK ==
  /\ db \in [Device -> Object] /\ view \in [Device -> Object]
  /\ changes \in 0..(MaxChanges + 1) /\ faults \in 0..Budget
  /\ dirty \subseteq Oid /\ oids \subseteq Oid
  /\ Wait!TypeOK /\ (faults = 0 => Wait!TimerPending)
  /\ Batch!TypeOK /\ Batch!OneTimer
  /\ reconfig \in BOOLEAN /\ connected \in BOOLEAN /\ rebuild \in BOOLEAN
  /\ registered \in BOOLEAN
  /\ loader \in {"idle", "answering", "answered", "applying"}
  /\ answer \in [Device -> Version] /\ config \in [Device -> Version]
  /\ todo \subseteq Device /\ suspect \subseteq Device
  /\ raced \subseteq Device
  /\ polling \in BOOLEAN /\ missed \subseteq Device
  /\ ~connected => channel = <<>>

(* Nothing is on its way from the database to the collector.               *)
Quiet ==
  /\ ~polling /\ dirty = {} /\ oids = {} /\ ~later /\ nows = 0
  /\ queued = 0 /\ current = "none"
  /\ channel = <<>> /\ loader = "idle"

(* When everything has arrived the collector has the configuration of each *)
(* device: the pushes do not rely on the next load, but for the devices    *)
(* that are suspect.  These are the ones whose push was lost, could not be *)
(* made or applied, crossed a load, or was of an old version because the   *)
(* change was committed between the hub's sync and its poll (or it had     *)
(* failed to sync), after which nothing is pushed again.                   *)
PushesSuffice ==
  Quiet => \A d \in Device \ suspect : config[d] = Wanted(d)

(* The loads make good what the pushes got wrong: whatever was lost, late  *)
(* or applied out of order, if the loader stays in the scheduler and there *)
(* is a device to load, the collector ends up with what is in the model.   *)
Converges ==
  <>[](registered /\ \E d \in Device : db[d].place = "here")
    => <>[](\A d \in Device : config[d] = Wanted(d))
=============================================================================
