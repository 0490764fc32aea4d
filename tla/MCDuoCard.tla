---------------------------- MODULE MCDuoCard ----------------------------
(* Two dCloud sessions and two runs of the Duo card. *)
EXTENDS DuoCard

AnyStart  == {"bootstrap", "ad_sync"}
Column(f) == [c \in Columns |-> IF c \in f THEN 1 ELSE 0]

\* Earlier rows: none, or one with an operator's file and keys, but without the account.
Earlier   == {Column({}), Column({"url", "cfg", "api"})}

\* A row that was given the running session's URL, but holds an older tenant's API keys.
UrlGiven  == {[Column({"api"}) EXCEPT !.url = 2]}
=============================================================================
