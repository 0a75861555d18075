--------------------------- MODULE AcquisitionMC ----------------------------
(***************************************************************************)
(* Small webs for Acquisition.  Go: two URLs with pages, bad statuses,     *)
(* redirects and every loop they can form.  TypeScript: three URLs, two of *)
(* one origin and one of another, which answer as they like.               *)
(***************************************************************************)
EXTENDS Acquisition, TLC

CONSTANTS u1, u2, w1, home, away

MCUrls == {u1, u2}
MCAnswers ==
    {[kind |-> k, to |-> u1] : k \in {"page", "status"}}
        \cup {[kind |-> "redirect", to |-> u] : u \in MCUrls}

MCSites == {u1, u2, w1}
MCOrigin == (u1 :> home) @@ (u2 :> home) @@ (w1 :> away)
MCScope == {home}
=============================================================================
