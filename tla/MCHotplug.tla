----------------------------- MODULE MCHotplug -----------------------------
(* Instance of Hotplug for TLC. *)
EXTENDS Hotplug

Case(listing, plugs, unplugs, junk, buffer, files, max) ==
  [listing |-> listing, plugs |-> plugs, unplugs |-> unplugs, junk |-> junk, buffer |-> buffer,
   files |-> files, max |-> max]

\* A directory that starts or ends with a plain entry, a device that is listed
\* twice, small sockets, junk, and a configuration that is edited.
Circumstances ==
  {Case(<<"plain", "a", "b">>, {"a"}, {"a"}, FALSE, 3, {"rules"}, 3),
   Case(<<"c", "a", "b">>, {"a"}, {"b"}, FALSE, 3, {"rules"}, 2),
   Case(<<"a", "b", "a">>, {}, {"a"}, FALSE, 3, {"rules"}, 2),
   Case(<<"a", "plain">>, {}, {"a"}, FALSE, 3, {"rules"}, 1),
   Case(<<"a", "b", "c">>, {"a", "b", "c"}, {"a"}, FALSE, 1, {"rules"}, 2),
   Case(<<"a", "b">>, {"a", "b"}, {"a"}, FALSE, 1, {"rules", "bad"}, 3),
   Case(<<"a", "b">>, {"a"}, {}, TRUE, 1, {"rules"}, 3),
   Case(<<"a", "b">>, {"a"}, {}, FALSE, 2, {"rules", "more", "bad", "missing", "unreadable"}, 3)}
=============================================================================
