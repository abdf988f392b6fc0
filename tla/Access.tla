------------------------------- MODULE Access -------------------------------
(***************************************************************************)
(* What the outbox promises about the access of a device, with its jobs,   *)
(* the calls of the agent, the crashes and the retries left out: access is *)
(* granted at most once, while the engines take the device in.  Once it is *)
(* withdrawn and no engine, file or call knows the device any more, none   *)
(* ever will.                                                              *)
(***************************************************************************)
CONSTANT Devices

VARIABLE access

\* "issued": there are credentials, which no engine knows.  "taken": the engines are
\* taking the device in.  "granted": the device may use the proxy.  "lingering": its
\* access has been withdrawn, but an engine, a file or a call still knows the device, or its
\* row says that it is active.  "withdrawn": nothing does.
States == {"none", "issued", "taken", "granted", "lingering", "withdrawn"}

\* Where the access of a device goes from each state.
After == [none      |-> {"issued"},
          issued    |-> {"taken", "withdrawn"},
          taken     |-> {"issued", "granted"},
          granted   |-> {"lingering", "withdrawn"},
          lingering |-> {"withdrawn"},
          withdrawn |-> {}]

Init == access = [d \in Devices |-> "none"]

\* One engine may take in or let go of several devices at a time.
Next ==
    /\ access' \in [Devices -> States]
    /\ \A d \in Devices : access'[d] \in {access[d]} \cup After[access[d]]

Spec == Init /\ [][Next]_access

=============================================================================
