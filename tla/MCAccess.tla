-------------------------------- MODULE MCAccess --------------------------------
EXTENDS Access

CONSTANTS u1, u2, t1, t2

Grant(member, permissions, scopes) ==
  [member |-> member, permissions |-> permissions, scopes |-> scopes, status |-> "ACTIVE", version |-> 1]
OneBrowser == [t \in Tabs |-> 1]
TwoBrowsers == [t \in Tabs |-> IF t = t1 THEN 1 ELSE 2]
Managers == <<Grant(u1, {"manage", "work"}, {"s"}), Grant(u2, {"manage"}, {"*"})>>

(* The instances: one address registers from two pages; the tabs of one     *)
(* browser, a second account's link in its mailbox; two administrators; and *)
(* a supporter in two browsers.                                              *)
Instances == {
  [logged |-> <<>>, mailed |-> <<>>, granted |-> <<>>, jar |-> TwoBrowsers, forms |-> "other", until |-> 3,
   registers |-> 3, verifies |-> 2, refreshes |-> 0, logouts |-> 0, mutations |-> 0],
  [logged |-> <<u1>>, mailed |-> <<u2>>, granted |-> <<>>, jar |-> OneBrowser, forms |-> "other", until |-> 3,
   registers |-> 0, verifies |-> 1, refreshes |-> 1, logouts |-> 1, mutations |-> 2],
  [logged |-> <<u1, u2>>, mailed |-> <<>>, granted |-> Managers, jar |-> TwoBrowsers, forms |-> "access", until |-> 0,
   registers |-> 0, verifies |-> 0, refreshes |-> 0, logouts |-> 0, mutations |-> 3],
  [logged |-> <<u2, u2>>, mailed |-> <<>>, granted |-> <<Grant(u1, {"work"}, {"s"})>>, jar |-> TwoBrowsers, forms |-> "support", until |-> 3,
   registers |-> 0, verifies |-> 0, refreshes |-> 0, logouts |-> 0, mutations |-> 3]}
=============================================================================
