----------------------------- MODULE MCContent -----------------------------
(***************************************************************************)
(* Users, orders that refer to them, and a third relation, for TLC.        *)
(***************************************************************************)
EXTENDS Content

Col(notNull, textual, maxLen) ==
  [generated |-> FALSE, notNull |-> notNull, textual |-> textual, maxLen |-> maxLen]
Id == Col(TRUE, FALSE, -1)
Sum == [Col(FALSE, FALSE, -1) EXCEPT !.generated = TRUE]
Mail(notNull, maxLen) == Col(notNull, TRUE, maxLen)

Ordinary(cols, refs) ==
  [kind |-> "r", cols |-> cols, rls |-> "off", readable |-> TRUE, refs |-> refs]
Only == [id |-> Id]
Users(mail) == Ordinary([id |-> Id, mail |-> mail], {})
Plain == Users(Mail(FALSE, 25))
Wider(notNull) == Ordinary([id |-> Id, mail |-> Mail(FALSE, 25), note |-> Mail(notNull, -1)], {})
Orders == Ordinary([id |-> Id, sum |-> Sum], {"users"})
View == [Ordinary(Only, {"users"}) EXCEPT !.kind = "v"]
Parent == [Ordinary(Only, {}) EXCEPT !.kind = "p"]
Log == Ordinary(Only, {})

MCTables == {"users", "orders", "other"}
MCColumns == {"id", "mail", "note", "sum"}

Catalog(users, orders, other) == [users |-> users, orders |-> orders, other |-> other]
MCSources ==
  {Catalog(Plain, Orders, Log),
   Catalog(Users(Mail(TRUE, 21)), Orders, View),
   Catalog([Plain EXCEPT !.rls = "on"], [Orders EXCEPT !.rls = "forced"], Absent),
   Catalog([Plain EXCEPT !.rls = "forced"], Orders, Absent),
   Catalog([Plain EXCEPT !.readable = FALSE], [Orders EXCEPT !.refs = {}], Parent),
   Catalog(Plain, Orders, [Parent EXCEPT !.readable = FALSE])}

MCShapes ==
  [users |-> {Plain, [Plain EXCEPT !.rls = "on"], Users(Mail(TRUE, 21)), Ordinary(Only, {}),
             Wider(TRUE), Wider(FALSE)},
   orders |-> {Absent, [Orders EXCEPT !.readable = FALSE], [Orders EXCEPT !.rls = "on"]},
   other |-> {Absent, View, Log}]

With(t, tc) == [fk |-> "", tables |-> [x \in {t} |-> tc]]
Rule(c, transform) == [NoConfig EXCEPT !.rules = [x \in {c} |-> transform]]
Tailed(n) == [NoConfig EXCEPT !.tailed = TRUE, !.tail = n]
MCConfigs ==
  {[fk |-> "", tables |-> [t \in {} |-> NoConfig]],
   [fk |-> "validate", tables |-> [t \in {} |-> NoConfig]],
   With("users", Rule("mail", "email")),
   With("users", Rule("mail", "md5")),
   With("users", Rule("mail", "null")),
   With("users", Rule("note", "redact")),
   With("users", Rule("id", "raw")),
   With("users", [NoConfig EXCEPT !.mode = "skip-data"]),
   With("users", [NoConfig EXCEPT !.mode = "skip", !.where = TRUE]),
   With("orders", [NoConfig EXCEPT !.mode = "skip"]),
   With("orders", [NoConfig EXCEPT !.where = TRUE]),
   With("other", [NoConfig EXCEPT !.mode = "skip-data"]),
   With("other", [Tailed(1) EXCEPT !.report = "id"]),
   With("other", Tailed(3)),
   With("other", Tailed(300))}

=============================================================================
