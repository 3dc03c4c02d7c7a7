--------------------------- MODULE MCKekRotation ---------------------------
(* An instance of KekRotation for TLC: a signing key and one to be created, an
   officer with a previous secret, and a sandbox client to be minted. *)
EXTENDS KekRotation, TLC

MCNsOf == "k1" :> "keys" @@ "k2" :> "keys" @@ "o1" :> "officers" @@ "m1" :> "clients"
MCEntries == DOMAIN MCNsOf
MCConfigured == {"keys", "officers", "clients"}

With(secret, prev) == [encrypted |-> TRUE, shape |-> "sk",
                       fields |-> ("secret" :> secret @@ "previous" :> prev @@ "hash" :> Absent)]
MCInitialKvs ==
    {[e \in MCEntries |-> CASE e = "k1" -> With(OldKek, Absent)
                            [] e = "o1" -> With(OldKek, OldKek)
                            [] OTHER -> NoRecord]}
(* The order the tool prints; and the re-encryption last, as verify-rotation asks
   for when it finds records under the previous KEK. *)
MCPrinted == <<"rotate", "current", "previous", "deploy", "verify", "remove">>
MCRotateLast == <<"current", "previous", "deploy", "rotate", "verify_rotation", "remove">>
MCProcedures == {MCPrinted, MCRotateLast}

(* One officer's record, re-encrypted last. *)
MCOfficerNs == "o1" :> "officers"
MCOfficerKvs == {"o1" :> With(OldKek, OldKek)}
MCOnlyRotateLast == {MCRotateLast}
Symmetry == Permutations(Requests)
=============================================================================
