--------------------------- MODULE ExclusiveLease ---------------------------
(***************************************************************************)
(* What BrowserAdapterLease promises an extraction: the page is reserved   *)
(* for one complete extraction, from before the navigation until after the *)
(* last output read, and a request for it may be refused.  Both browser    *)
(* adapters (RodAdapter, PlaywrightAdapter) are shown to implement this    *)
(* module; BrowserExtraction is written against it.                        *)
(***************************************************************************)
CONSTANT Client

VARIABLE phase      \* what each client is to the lease

Phases == {"out", "waiting", "holding"}

In(p) == {c \in Client : phase[c] = p}

Init == phase = [c \in Client |-> "out"]

(* A client asks for the page. *)
Request(c) ==
    /\ phase[c] = "out"
    /\ phase' = [phase EXCEPT ![c] = "waiting"]

(* The free page goes to a client, which may not have had to wait for it. *)
Grant(c) ==
    /\ In("holding") = {}
    /\ phase[c] \in {"out", "waiting"}
    /\ phase' = [phase EXCEPT ![c] = "holding"]

(* Some waiting clients are turned away: canceled, or the adapter closed. *)
Refuse(turnedAway) ==
    /\ turnedAway \subseteq In("waiting")
    /\ phase' = [c \in Client |-> IF c \in turnedAway THEN "out" ELSE phase[c]]

(* The holder gives the page back.  The same step may turn waiting clients *)
(* away and hand the page to one of the others.                            *)
Release(h, turnedAway, heirs) ==
    /\ phase[h] = "holding"
    /\ turnedAway \cup heirs \subseteq In("waiting")
    /\ turnedAway \cap heirs = {}
    /\ \A c, d \in heirs : c = d
    /\ phase' = [c \in Client |->
                    IF c \in turnedAway \cup {h} THEN "out"
                    ELSE IF c \in heirs THEN "holding" ELSE phase[c]]

Next ==
    \/ \E c \in Client : Request(c) \/ Grant(c)
    \/ \E turnedAway \in SUBSET Client : Refuse(turnedAway)
    \/ \E h \in Client : \E turnedAway, heirs \in SUBSET Client :
          Release(h, turnedAway, heirs)

Spec == Init /\ [][Next]_phase

TypeOK == phase \in [Client -> Phases]

(* Never two extractions on the page. *)
Exclusive == \A c, d \in In("holding") : c = d
=============================================================================
