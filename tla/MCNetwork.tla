------------------------------ MODULE MCNetwork ------------------------------
(***************************************************************************)
(* An instance of what a node keeps of a network, for TLC: the credentials *)
(* of a member, with three nodes in a line, and the configuration updates  *)
(* on their way in.  Neither part looks at the state of the other, so a    *)
(* behaviour has only one of them; and it has two revocations of the COM,  *)
(* or one of it and two of a tag.                                          *)
(***************************************************************************)
EXTENDS Membership, ConfigChunks, TLC

CONSTANTS a, b, far, tag, u1, u2, u3

VARIABLE busy    \* the one that this behaviour has, fixed at the start

MCPeers == (a :> {b}) @@ (b :> {a, far}) @@ (far :> {b})

MCOnline == { {a}, {far} }

Rev(k, t) == [key |-> k, thr |-> t, fast |-> TRUE]
MCRevocations == { Rev(tag, 1), Rev(tag, 2), Rev(Com, 1), Rev(Com, 2) }

MCLength == (u1 :> 2) @@ (u2 :> 2) @@ (u3 :> 1)

MayIssue ==
    IF busy = "COM" THEN { r \in MCRevocations : r.key = Com } ELSE MCRevocations \ {Rev(Com, 1)}

NetInit == Init /\ ChunkInit /\ busy \in {"credentials", "COM", "configuration"}

NetNext ==
    /\ UNCHANGED busy
    /\ \/ /\ busy \in {"credentials", "COM"}
          /\ Next
          /\ issued' \subseteq MayIssue
          /\ UNCHANGED chunkVars
       \/ busy = "configuration" /\ ChunkNext /\ UNCHANGED vars

(* The fairness of Membership and that of ConfigChunks *)
NetFairness ==
    /\ \A n \in Node :
           WF_vars(busy # "configuration" /\ \E m \in flight : m.to = n /\ AddRevocation(m))
    /\ \A u \in Arriving : \A i \in 1..Length[u] :
           WF_chunkVars(/\ busy = "configuration"
                        /\ \E source \in Member \cup {NetController} : HandleChunk(source, u, i))

NetSpec == NetInit /\ [][NetNext]_<<vars, chunkVars, busy>> /\ NetFairness

------------------------------------------------------------------------------

(* AllAssembled of ConfigChunks, for the behaviours that have chunks: with *)
(* a slot for each update, and no chunk lost for ever, each is used.       *)
UpdatesAssembled == busy = "configuration" => AllAssembled
=============================================================================
