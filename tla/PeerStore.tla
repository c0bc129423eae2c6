----------------------------- MODULE PeerStore -----------------------------
(***************************************************************************)
(* internal/store/peer_store.go: the statements run on the peers table.    *)
(* Each is one autocommitted SQL statement, so one atomic function of the  *)
(* table t, which maps row ids to rows.                                    *)
(***************************************************************************)
EXTENDS PeerTypes

Active(t) == {r \in Rows : t[r].status = "active"}

\* The ids of the rows FindActiveByUserID returns.
FindActiveByUserID(t, u) == {r \in Active(t) : t[r].user = u}

CountActiveByUserID(t, u) == Cardinality(FindActiveByUserID(t, u))

FindByPublicKey(t, k) == {r \in Rows : t[r].status # "none" /\ t[r].key = k}

ListActive(t) == {[key |-> t[r].key, ip |-> t[r].ip] : r \in Active(t)}

\* The id a new row gets (gen_random_uuid). The code tells ids apart only by
\* equality, so the lowest unused one stands for any.
Unused(t) == {r \in Rows : t[r].status = "none"}
FreshRow(t) == {r \in Unused(t) : \A q \in Unused(t) : r <= q}

Create(t, r, u, k, a) ==
    [t EXCEPT ![r] = [user |-> u, key |-> k, ip |-> a, status |-> "active"]]

Activate(t, r, a) == [t EXCEPT ![r] = [@ EXCEPT !.ip = a, !.status = "active"]]

UpdateStatus(t, r, s) == [t EXCEPT ![r].status = s]

UpdatePublicKey(t, r, k) == [t EXCEPT ![r].key = k]

\* Faulty: the keys of peers that are not active do not count.
KeyTakenActive(t, r, k) == \E q \in Active(t) : q # r /\ t[q].key = k

\* The UNIQUE constraint on public_key, checked by INSERT and UPDATE.
KeyTaken(t, r, k) == \E q \in FindByPublicKey(t, k) : q # r
=============================================================================
