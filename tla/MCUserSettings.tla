--------------------------- MODULE MCUserSettings ---------------------------
(***************************************************************************)
(* Two requests in flight, of a DSO operator,  of a person who belongs to  *)
(* no organisation (who may read, and so create, settings) and of a        *)
(* service without a scope (who may not).                                  *)
(***************************************************************************)
EXTENDS UserSettings, TLC

CONSTANTS ada, ben, bot, north, s1, s2, s3, k1, k2, mail

Person(sub, organizations) ==
    [sub |-> sub, organizations |-> organizations, is_service_account |-> FALSE, scopes |-> {}]

SomeCallers ==
    {Person(ada, {[alias |-> north, type |-> "dso", attributes |-> {}]}),
     Person(ben, {}),
     [Person(bot, {}) EXCEPT !.is_service_account = TRUE]}

SomeBodies ==
    {[NothingNamed EXCEPT !.email_recipients = mail],
     [NothingNamed EXCEPT !.webhook_url = mail],
     [NothingNamed EXCEPT !.email_recipients = Null]}

Symmetry == Permutations(Slots) \cup Permutations(Keys)
=============================================================================
