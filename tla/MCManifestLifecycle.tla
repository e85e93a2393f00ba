------------------------ MODULE MCManifestLifecycle ------------------------
(* Two families of manifests. In the first the contests differ in everything
   that is optional or ordered, and so do the units of the ballot style; in the
   second the other parts do. Each keeps the rest plain.                      *)
EXTENDS ManifestLifecycle, TLC

Selection(n, order) == [id |-> ToString(n), candidateId |-> "c" \o ToString(n), order |-> order]

\* In order and out of order, and as large as an order gets.
SomeSelections == {<<Selection(1, 0), Selection(2, 1)>>, <<Selection(1, 2), Selection(2, 1)>>,
                   <<Selection(1, 1), Selection(2, OrderLimit - 2)>>,
                   <<Selection(1, 3), Selection(2, OrderLimit)>>}

\* No title; a title; with and without subtitle.
Titles == {NULL, <<"en">>} \X {NULL, <<"en", "es">>}

Contest(id, district, order, selections, elected, allowed, variation, title) ==
  [id |-> id, district |-> district, order |-> order, variation |-> variation,
   elected |-> elected, allowed |-> allowed, title |-> title[1], subtitle |-> title[2],
   selections |-> selections, primaryPartyIds |-> <<"p">>]

PlainContest(order) ==
  Contest("x", "u1", order, <<Selection(1, 0), Selection(2, 1)>>, 1, 1, "one_of_m", <<NULL, NULL>>)

Contact(name, line) == [name |-> name, addressLine |-> line, email |-> <<>>, phone |-> <<>>]
SomeContacts == {NULL, Contact("", <<>>), Contact("n", <<>>), Contact("", <<"a">>)}
Unit(id, contact) == [id |-> id, contact |-> contact]
Party(id, name) == [id |-> id, name |-> name, abbreviation |-> "a"]
Candidate(id, name, party) ==
  [id |-> id, name |-> name, partyId |-> party, imageUri |-> "", isWriteIn |-> name = NULL]
Style(units) == [id |-> "s1", unitIds |-> units, partyIds |-> <<>>, imageUri |-> ""]

UnitIds == {<<"u1">>, <<"u2">>, <<"u2", "u1">>, <<"u1", "u1">>, <<>>}

Manifest(units, party, contests, unitIds, name, contact) ==
  [scope |-> "scope", units |-> units, parties |-> <<Party("p", party)>>,
   candidates |-> <<Candidate("c1", party, "p"), Candidate("c2", NULL, "")>>,
   contests |-> contests, styles |-> <<Style(unitIds)>>, name |-> name, contact |-> contact]

TwoUnits == <<Unit("u1", NULL), Unit("u2", NULL)>>

ContestFamily ==
  {Manifest(TwoUnits, <<"en">>,
            <<Contest("y", "u2", order, s, elected, allowed, variation, title), PlainContest(2)>>,
            unitIds, NULL, NULL) :
     s \in SomeSelections, order \in {1, 3}, elected \in {1, 2}, allowed \in {0, 1, 2},
     variation \in {"n_of_m", "cumulative"}, title \in Titles, unitIds \in UnitIds}

OtherFamily ==
  {Manifest(<<Unit("u1", unit), Unit(second, NULL)>>, party, <<PlainContest(1)>>, unitIds, name, contact) :
     unit \in SomeContacts, second \in {"u1", "u2"}, party \in {NULL, <<>>, <<"en">>},
     unitIds \in {<<"u1">>, <<"u3">>}, name \in {NULL, <<>>, <<"en">>}, contact \in SomeContacts}

MCManifests == ContestFamily \cup OtherFamily
=============================================================================
