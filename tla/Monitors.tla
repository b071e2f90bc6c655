-------------------------------- MODULE Monitors --------------------------------
(***************************************************************************)
(* Armed expectations (src/entourage/monitors.py), as operators on a       *)
(* function from monitor ids to records.  A monitor has a deadline or is a *)
(* heartbeat; late says that its deadline or interval has passed.          *)
(***************************************************************************)
EXTENDS Naturals

NoMonitors == <<>>

\* _armed_record
Armed(notify, correlation, source, heartbeat) ==
  [notify |-> notify, correlation |-> correlation, source |-> source,
   heartbeat |-> heartbeat, late |-> FALSE, lapsed |-> FALSE, cycles |-> 0]

Matches(record, correlation, source) ==
  (record.correlation # "" /\ record.correlation = correlation)
    \/ (record.source # <<>> /\ record.source = source)

\* Arming an armed id again is a replay and changes nothing.
Arm(mons, id, record) ==
  IF id \in DOMAIN mons THEN mons
  ELSE [i \in DOMAIN mons \cup {id} |-> IF i = id THEN record ELSE mons[i]]

Disarm(mons, ids) == [i \in DOMAIN mons \ ids |-> mons[i]]

\* A deadline is satisfied and gone; a heartbeat's window restarts.
Observe(mons, correlation, source) ==
  LET seen == {i \in DOMAIN mons : Matches(mons[i], correlation, source)}
      kept == {i \in DOMAIN mons : i \notin seen \/ mons[i].heartbeat}
  IN  [i \in kept |-> IF i \in seen THEN [mons[i] EXCEPT !.late = FALSE, !.lapsed = FALSE]
                      ELSE mons[i]]

IsDue(record) == ~record.lapsed /\ record.late
Due(mons) == {i \in DOMAIN mons : IsDue(mons[i])}

\* A fired deadline is gone; a heartbeat stays, with its cycle counted.
MarkLapsed(mons, id) ==
  IF id \notin DOMAIN mons THEN mons
  ELSE IF mons[id].heartbeat
    THEN [mons EXCEPT ![id].lapsed = TRUE, ![id].cycles = @ + 1]
  ELSE Disarm(mons, {id})
=============================================================================
