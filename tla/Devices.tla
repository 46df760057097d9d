------------------------------- MODULE Devices -------------------------------
(***************************************************************************)
(* The machines one account is signed in on, across instances: the sockets *)
(* in each hub, the registry in Redis each instance publishes its own      *)
(* entry to (fanout.rs) and the merged list the picker and remote install  *)
(* use (devices.rs).  Registry writes are spawned tasks that run in any    *)
(* order.  An entry counts for ONLINE_TTL_SECS; a ping restamps it.        *)
(* External: a connected client pings before its entry is that old.        *)
(***************************************************************************)
EXTENDS Naturals, FiniteSets

CONSTANTS
    Machines,     \* sockets that name a device; parse_device dropped the others
    DeviceId,     \* the device each socket names: a machine may hold several
    Hosts,        \* server processes
    MaxSignIns,   \* bound on connects, for model checking
    MaxFailures   \* bound on writes Redis refuses, for model checking

ASSUME DevicesConstants == Hosts # {} /\ MaxSignIns \in Nat /\ MaxFailures \in Nat

VARIABLES
    held,      \* hub: the sockets registered on each instance
    entry,     \* social:devices:<user>: the devices each instance published
    fresh,     \* is the entry at most ONLINE_TTL_SECS old?
    writes,    \* spawned HSET (or, of no devices, HDEL) tasks
    signIns,   \* connects so far
    failures   \* writes that failed so far

deviceVars == <<held, entry, fresh, writes, signIns, failures>>

Ids == {DeviceId[m] : m \in Machines}

DevicesTypeOK ==
    /\ held \in [Hosts -> SUBSET Machines]
    /\ entry \in [Hosts -> SUBSET Ids]
    /\ fresh \in [Hosts -> BOOLEAN]
    /\ writes \subseteq Hosts \X SUBSET Ids
    /\ signIns \in 0 .. MaxSignIns /\ failures \in 0 .. MaxFailures

DevicesInit ==
    /\ held = [h \in Hosts |-> {}]
    /\ entry = [h \in Hosts |-> {}]
    /\ fresh = [h \in Hosts |-> FALSE]
    /\ writes = {}
    /\ signIns = 0 /\ failures = 0

-----------------------------------------------------------------------------
\* collapse_devices keeps one entry per device id.
collapse_devices(ms) == {DeviceId[m] : m \in ms}
devices_for(h) == collapse_devices(held[h])

\* Faulty variant: a peer's entry counts however old it is.
merge_all_entries(h) == devices_for(h) \cup UNION {entry[g] : g \in Hosts \ {h}}

\* all_devices: this instance's sockets, and the fresh entries of the others.
merge_device_registry(h) ==
    devices_for(h) \cup UNION {entry[g] : g \in {k \in Hosts \ {h} : fresh[k]}}

\* fanout_set_devices spawns a write of what the instance holds at this moment.
Publish(h, ms) == writes' = writes \cup {<<h, collapse_devices(ms)>>}

\* register, and at the end of the handshake push_device_list.
SignIn(h, m) ==
    /\ signIns < MaxSignIns
    /\ \A g \in Hosts : m \notin held[g]
    /\ held' = [held EXCEPT ![h] = @ \cup {m}]
    /\ Publish(h, held'[h])
    /\ signIns' = signIns + 1
    /\ UNCHANGED <<entry, fresh, failures>>

\* unregister, then push_device_list.
SignOff(h, m) ==
    /\ m \in held[h]
    /\ held' = [held EXCEPT ![h] = @ \ {m}]
    /\ Publish(h, held'[h])
    /\ UNCHANGED <<entry, fresh, signIns, failures>>

\* A ping (or a "devices" frame) publishes again and so restamps the entry.
Restamp(h) ==
    /\ held[h] # {}
    /\ Publish(h, held[h])
    /\ UNCHANGED <<held, entry, fresh, signIns, failures>>

\* A spawned write reaches Redis ...
WriteEntry(w) ==
    /\ w \in writes
    /\ writes' = writes \ {w}
    /\ entry' = [entry EXCEPT ![w[1]] = w[2]]
    /\ fresh' = [fresh EXCEPT ![w[1]] = w[2] # {}]
    /\ UNCHANGED <<held, signIns, failures>>

\* ... or fails, and is forgotten.
WriteFails(w) ==
    /\ w \in writes /\ failures < MaxFailures
    /\ writes' = writes \ {w}
    /\ failures' = failures + 1
    /\ UNCHANGED <<held, entry, fresh, signIns>>

\* The entry of an instance whose clients no longer ping grows old.
Age(h) ==
    /\ fresh[h] /\ held[h] = {}
    /\ fresh' = [fresh EXCEPT ![h] = FALSE]
    /\ UNCHANGED <<held, entry, writes, signIns, failures>>

\* An instance dies without withdrawing anything.
HostDies(h) ==
    /\ held[h] # {}
    /\ held' = [held EXCEPT ![h] = {}]
    /\ writes' = {w \in writes : w[1] # h}
    /\ UNCHANGED <<entry, fresh, signIns, failures>>

DevicesNext ==
    \/ \E h \in Hosts, m \in Machines : SignIn(h, m) \/ SignOff(h, m)
    \/ \E h \in Hosts : Restamp(h) \/ Age(h) \/ HostDies(h)
    \/ \E w \in writes : WriteEntry(w) \/ WriteFails(w)

DevicesSpec == DevicesInit /\ [][DevicesNext]_deviceVars

\* Spawned tasks run, connected clients ping, entries grow old.
DevicesFairness ==
    /\ \A w \in Hosts \X SUBSET Ids : WF_deviceVars(WriteEntry(w))
    /\ \A h \in Hosts : WF_deviceVars(Restamp(h)) /\ WF_deviceVars(Age(h))

-----------------------------------------------------------------------------
\* Once nobody signs in or off any more, every instance comes to list exactly the
\* machines that are signed in, and goes on doing so: writes that overtook each other,
\* and entries a dead instance left, are made good by the pings and the age limit.
PickerSettles ==
    <>[](\A h \in Hosts : merge_device_registry(h) = UNION {devices_for(g) : g \in Hosts})
        \/ []<><<held' # held>>_held

=============================================================================
