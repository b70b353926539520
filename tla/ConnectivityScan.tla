-------------------------- MODULE ConnectivityScan --------------------------
(* Instance online and offline notifications: the connectivity scan of        *)
(* notification_service.py, which compares every instance with the state it   *)
(* last told a channel of, and edits of the channel between two scans.  A     *)
(* scan reads in one step and commits in another: heartbeats and edits come   *)
(* in between.  One instance, one channel whose scope includes its service.   *)
EXTENDS Integers, FiniteSets, Sequences, FiniteSetsExt, SequencesExt

CONSTANTS OfflineAfter,  \* instance_offline_after_s
          MaxNow, MaxEdits   \* bounds

None == "none"
Types == {"instance_online", "instance_offline"}

VARIABLES now,
          alive,   \* the instance sends heartbeats (external)
          seen,    \* Instance.last_seen_at, -1 before the first report
          beats,   \* times of all heartbeats
          channel, \* enabled, event types, whether the missed-start grace is customised
          told,    \* NotificationInstanceState: last connectivity and its time
          scan,    \* what the scan in progress has read
          notes,   \* notifications queued, in order
          edits
vars == <<now, alive, seen, beats, channel, told, scan, notes, edits>>

-----------------------------------------------------------------------------
Unknown == [last |-> None, at |-> 0]
Init ==
  /\ now = 0 /\ alive = TRUE /\ seen = -1 /\ beats = {} /\ told = Unknown
  /\ channel = [enabled |-> TRUE, types |-> Types, grace |-> FALSE]
  /\ scan = {} /\ notes = <<>> /\ edits = 0

\* get_instance_connectivity with the cutoff of online_cutoff.
Connectivity(s, at) == IF s = -1 THEN "never_reported"
                       ELSE IF s >= at - OfflineAfter THEN "online" ELSE "offline"

\* _instance_transition_time.
TransitionTime(s, c, at) == IF c = "online" THEN s ELSE Min({at, s + OfflineAfter})

\* _build_instance_connectivity_notification_event and its dedupe key.
Event(s, c, at) == [type |-> IF c = "online" THEN "instance_online" ELSE "instance_offline",
                    at |-> TransitionTime(s, c, at)]

\* The scan starts a transaction: channels, states and instances are read.
Read ==
  /\ scan = {} /\ channel.enabled /\ channel.types # {}
  /\ scan' = {[seen |-> seen, told |-> told, types |-> channel.types, at |-> now]}
  /\ UNCHANGED <<now, alive, seen, beats, channel, told, notes, edits>>

\* Mutant: what the channel was told is not saved.
ToldFirst(old, new, sent) == old

\* last_connectivity follows the instance whether or not the channel wants the event.
Told(old, new, sent) == new

\* The rest of scan_and_dispatch_instance_connectivity_notifications: the first
\* sight of an instance only seeds its state; a change is saved and, if the
\* channel subscribes to it and it was not sent before, queued.
Commit ==
  /\ scan' = {}
  /\ \E r \in scan :
     LET c == Connectivity(r.seen, r.at)
         e == Event(r.seen, c, r.at)
         new == [last |-> c, at |-> e.at]
         sent == e.type \in r.types /\ e \notin ToSet(notes)
     IN \/ /\ c = "never_reported" \/ r.told.last = c
           /\ UNCHANGED <<told, notes>>
        \/ /\ c # "never_reported" /\ r.told = Unknown
           /\ told' = new /\ UNCHANGED notes
        \/ /\ c # "never_reported" /\ r.told # Unknown /\ r.told.last # c
           /\ told' = Told(told, new, sent)
           /\ notes' = IF sent THEN Append(notes, e) ELSE notes
  /\ UNCHANGED <<now, alive, seen, beats, channel, edits>>

\* A heartbeat is ingested.
Beat == /\ alive /\ seen # now /\ seen' = now /\ beats' = beats \cup {now}
        /\ UNCHANGED <<now, alive, channel, told, scan, notes, edits>>

Stop == alive /\ alive' = FALSE /\ UNCHANGED <<now, seen, beats, channel, told, scan, notes, edits>>

Tick == now < MaxNow /\ now' = now + 1
        /\ UNCHANGED <<alive, seen, beats, channel, told, scan, notes, edits>>

\* _validate_merged_missed_start_settings: over what the update leaves in place.
ValidMerge(c, update) == update.grace => "task_missed_start" \in update.types

\* update_notification_channel: fields that are not sent keep their value.
Update ==
  /\ edits < MaxEdits /\ edits' = edits + 1
  /\ \E u \in [enabled : BOOLEAN, grace : BOOLEAN,
               types : {Types, {"instance_offline"}, {"instance_offline", "task_missed_start"}}] :
       \E fields \in SUBSET {"enabled", "types", "grace"} :
         LET merged == [f \in DOMAIN channel |-> IF f \in fields THEN u[f] ELSE channel[f]]
         IN ValidMerge(channel, merged) /\ channel' = merged
  /\ UNCHANGED <<now, alive, seen, beats, told, scan, notes>>

Next == Read \/ Commit \/ Beat \/ Stop \/ Tick \/ Update
Spec == Init /\ [][Next]_vars /\ WF_vars(Read) /\ WF_vars(Commit) /\ WF_vars(Tick) /\ WF_vars(Stop)

-----------------------------------------------------------------------------
\* The type invariant.
TypeOK == /\ told.last \in {None, "online", "offline"} /\ seen \in -1..now
          /\ \A i \in 1..Len(notes) : notes[i].type \in Types /\ notes[i].at \in 0..MaxNow

\* A channel subscribed to both events hears them in turn, whatever heartbeats
\* arrive while a scan is under way: never offline twice without online between.
Alternate == edits = 0 => \A i \in 1..Len(notes) - 1 : notes[i].type # notes[i + 1].type

\* An instance reported offline at a time really was silent up to that time.
OfflineIsTrue ==
  \A i \in 1..Len(notes) : notes[i].type = "instance_offline" =>
    \A b \in beats : ~(notes[i].at - OfflineAfter < b /\ b < notes[i].at)

\* Notifications carry times in order, although scans read old heartbeats.
TimesInOrder == \A i, j \in 1..Len(notes) : i < j => notes[i].at <= notes[j].at

\* No sequence of partial edits leaves a channel with a grace period of its own
\* that does not want missed starts.
GraceKept == channel.grace => "task_missed_start" \in channel.types

=============================================================================
