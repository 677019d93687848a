------------------------------ MODULE MCStore ------------------------------
(***************************************************************************)
(* Instances of ReadCache and Records small enough for TLC, side by side:  *)
(* part says whose steps a behaviour takes, so that one run explores the   *)
(* two, one after the other.                                               *)
(***************************************************************************)
EXTENDS ReadCache, Records, TLC

VARIABLE part

StoreInit == Init /\ RecordsInit /\ part \in {"cache", "records"}

StoreNext ==
    /\ UNCHANGED part
    /\ \/ part = "cache" /\ Next /\ UNCHANGED recordsVars
       \/ part = "records" /\ RecordsNext /\ UNCHANGED vars

StoreSpec == StoreInit /\ [][StoreNext]_<<vars, recordsVars, part>>

-----------------------------------------------------------------------------
(* ReadCache *)

CONSTANTS all, byId, r1, r2, r3, w1, w2

\* Three calls of one list query, all alike.
ThreeLists == (r1 :> all) @@ (r2 :> all) @@ (r3 :> all)

ListSymmetry == Permutations({r1, r2, r3})

-----------------------------------------------------------------------------
(* Records *)

Artists   == <<[id |-> 1, name |-> "a1"], [id |-> 2, name |-> "a2"]>>
Albums    == <<[id |-> 2, title |-> "b2", artist |-> 1], [id |-> 1, title |-> "b1", artist |-> 1]>>
Tracks    == <<[id |-> 2, name |-> "t2", album |-> 1, genre |-> 1, mediaType |-> 1],
               [id |-> 1, name |-> "t1", album |-> 2, genre |-> 1, mediaType |-> Null],
               [id |-> 3, name |-> "t3", album |-> Null, genre |-> 2, mediaType |-> 1]>>
Lists     == <<[id |-> 1, name |-> "p1"]>>
Listed    == <<[playlist |-> 1, track |-> 1], [playlist |-> 1, track |-> 3]>>
Employees == <<[id |-> 2, first |-> "f2", last |-> "l2", reportsTo |-> 1],
               [id |-> 1, first |-> "f1", last |-> Null, reportsTo |-> Null]>>
Customers == <<[id |-> 1, first |-> "g1", last |-> "m1", company |-> "c", rep |-> 2]>>
MediaTypes == <<[id |-> 1, name |-> "m1"]>>
Genres    == <<>>
Invoices  == <<[id |-> 1, customer |-> 1, date |-> 2, total |-> 3, status |-> "Draft"],
               [id |-> 2, customer |-> Null, date |-> 1, total |-> 1, status |-> "Draft"],
               [id |-> 3, customer |-> 1, date |-> 1, total |-> 2, status |-> "Draft"]>>
InvoiceLines ==
    <<[id |-> 1, invoice |-> 1, track |-> 1, price |-> 1, quantity |-> 2],
      [id |-> 2, invoice |-> 1, track |-> 2, price |-> 1, quantity |-> 1],
      [id |-> 3, invoice |-> 1, track |-> 1, price |-> 1, quantity |-> Null],
      [id |-> 4, invoice |-> 2, track |-> Null, price |-> 1, quantity |-> 1],
      [id |-> 5, invoice |-> 3, track |-> 1, price |-> 2, quantity |-> 1],
      [id |-> 6, invoice |-> 3, track |-> 9, price |-> Null, quantity |-> 1]>>

Key(entity, kind, id) == [entity |-> entity, kind |-> kind, id |-> id]
Reads ==
    {Key("genre", "all", 0), Key("genre", "by-id", 1),
     Key("invoice", "all", 0), Key("invoice", "by-customer", 1), Key("invoice", "by-id", 1),
     Key("track", "by-genre", 1), Key("track", "by-artist", 1), Key("track", "by-playlist", 1),
     Key("track", "by-album", 1), Key("track", "by-mediatype", 1), Key("track", "by-id", 3),
     Key("track", "all", 0), Key("album", "by-id", 1), Key("album", "all", 0),
     Key("album", "by-artist", 1), Key("artist", "by-id", 1), Key("artist", "all", 0),
     Key("playlist", "by-id", 1), Key("playlist", "all", 0), Key("customer", "by-id", 1),
     Key("customer", "all", 0), Key("customer", "by-supportrep", 2), Key("employee", "by-id", 2),
     Key("employee", "all", 0), Key("employee", "direct-reports", 1), Key("employee", "reports-to", 2),
     Key("mediatype", "by-id", 1), Key("mediatype", "all", 0), Key("invoiceline", "by-id", 1),
     Key("invoiceline", "all", 0), Key("invoiceline", "by-invoice", 1), Key("invoiceline", "by-track", 1)}
=============================================================================
