--------------------------- MODULE MCWatchedSave ---------------------------
(* An instance of WatchedSave for TLC.  "3" and "03" are two spellings of  *)
(* one CRD: both match the request schema's /^\d+$/ and both survive the   *)
(* api's Set, which compares strings.                                      *)
EXTENDS WatchedSave, TLC

CONSTANTS s1, s2

Names == {"3", "03", "5", "8"}
Crds == {3, 5, 8}
CrdOfName == ("3" :> 3) @@ ("03" :> 3) @@ ("5" :> 5) @@ ("8" :> 8)

\* With SYNC_ADD_MAX = 1 and CHUNK = 2, s1 is queued: a filter, two chunks, or a
\* respelling in the chunk; s2 is synchronous.
FewRequests == s1 :> {<<>>, <<"5", "03", "8">>, <<"3", "03">>} @@ s2 :> {<<"3">>}

\* RESOLVE_MAX = 2 cuts the last one off.
ThreeMatches == {<<"3", "5", "8">>}

NoMembers == {}
OneRecord == {5}
============================================================================
