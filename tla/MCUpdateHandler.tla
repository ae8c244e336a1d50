-------------------------- MODULE MCUpdateHandler --------------------------
(***************************************************************************)
(* Instances of UpdateHandler for TLC: two KEYs at one name, one record    *)
(* each, and the requests that bring them about.                           *)
(***************************************************************************)
EXTENDS UpdateHandler, TLC

CONSTANTS k1, k2, r1, r2, name

MCKey == {k1, k2}
MCRec == {r1, r2}
MCName == {name}

SameName == k1 :> name @@ k2 :> name
SameCovers == k1 :> {k1, k2, r1, r2} @@ k2 :> {k1, k2, r1, r2}

Req(signer, case, keys, recs, carried) ==
  [signer |-> signer, case |-> case, keys |-> keys, recs |-> recs,
   carried |-> carried]

\* k1 registers with r1, mints k2, deletes what it has; with online KEYs it may mint
\* k2 and own r1 without a lease of its own.  k2 manages r2, and tries to claim and to
\* delete what k1 has.
MCRequests ==
  {Req(k1, "A", <<k1, k2>>, {r1}, FALSE), Req(k1, "A", <<k2>>, {r1}, FALSE),
   Req(k2, "D", <<k2>>, {}, FALSE), Req(k2, "D", <<k1>>, {}, FALSE),
   Req(k1, "D", <<k1>>, {r1}, FALSE), Req(k1, "C", <<k1>>, {}, FALSE),
   Req(k2, "A", <<k2>>, {r1, r2}, FALSE), Req(k2, "B", <<>>, {r2}, FALSE),
   Req(k2, "C", <<k2>>, {r1}, TRUE)}
==========================================================================
