-------------------------- MODULE MC_NameService --------------------------
\* Small instances of the parts of NameService.
EXTENDS NameService

TwoNames == <<1, 2>>
ThreeServers == <<1, 2, 3>>

SmallTree == {<< >>, <<"a">>, <<"w", "a">>, <<"b">>}
TwoAliases == {<<"w", "a">>, <<"b">>}

TwoOwners == {<<"a">>, <<"b", "a">>}
AddressAndServers == {[type |-> "A", target |-> << >>],
                      [type |-> "NS", target |-> <<"b", "a">>], [type |-> "NS", target |-> <<"c", "a">>]}

DataOf == [type \in RecordTypes |-> IF type = "SOA" THEN {3} ELSE {1}]

EmptyAndSmall == {[serial |-> 0, records |-> {}], [serial |-> 2, records |-> {"a"}]}

\* Lines of zone files, relative and absolute names, in the zone and out of it.
Rel(labels) == [absolute |-> FALSE, labels |-> labels]
Line(k, n, t, y) == [kind |-> k, name |-> n, ttl |-> t, type |-> y]
ZoneOrigin == <<"z">>
SomeLines == {
    Line("record", <<Rel(<<"a">>)>>, Unknown, "A"), Line("record", << >>, Unknown, "A"),
    Line("record", <<Rel(<<"a">>)>>, 1, "A"), Line("record", <<Absolute(<<"o">>)>>, 1, "A"),
    Line("record", <<Rel(<< >>)>>, Unknown, "SOA"), Line("record", <<Rel(<<"a">>)>>, 1, "CNAME"),
    Line("$TTL", << >>, 2, "none"), Line("$ORIGIN", <<Absolute(<<"s", "z">>)>>, Unknown, "none"),
    Line("$ORIGIN", <<Rel(<<"s">>)>>, Unknown, "none"), Line("$INCLUDE", << >>, Unknown, "none"),
    Line("$INCLUDE", <<Rel(<<"i">>)>>, Unknown, "none"), Line("$GENERATE", <<Rel(<<"g">>)>>, Unknown, "A"),
    Line("end", << >>, Unknown, "none"), Line("malformed", << >>, Unknown, "none")}

\* Texts, and names and strings of characters that mean something in them.
\* (A .cfg file would take "\n" for two characters.)
SomeChars == {"a", " ", "\n", "(", ")", "\"", ";", "\\"}
SpecialChars == {"a", "1", ".", "\\", "\"", "(", ";", " ", "@", "\n", "ctl"}
SpecialLabels == {<<c>> : c \in SpecialChars} \cup {<<c, d>> : c \in SpecialChars, d \in {"1", "\\", "."}}
SpecialNames == {<< >>, <<<< >>>>} \cup {<<l>> : l \in SpecialLabels}
                \cup {<<<<c>>, <<"a">>, << >>>> : c \in SpecialChars}
SpecialStrings == {<< >>} \cup SpecialLabels
TextOrigin == <<<<"o">>, << >>>>

\* Two keys with one tag, and one that cannot be read.
DnsKey(i, t, a, unreadable) == [id |-> i, tag |-> t, algorithm |-> a, malformed |-> unreadable]
ThreeKeys == <<DnsKey(1, 1, "rsa", FALSE), DnsKey(2, 1, "rsa", FALSE), DnsKey(3, 1, "md5", TRUE)>>
WildcardOwner == <<"*", "z">>
TwoExpansions == {<<"a", "z">>, <<"b", "a", "z">>}

\* Relative and absolute names, some of which differ in case alone.
LabelOf(r) == [rank |-> r, capital |-> FALSE]
Capital(r) == [rank |-> r, capital |-> TRUE]
SomeNames ==
    {<< >>, <<LabelOf(1)>>, <<LabelOf(2), LabelOf(1)>>, <<LabelOf(3), LabelOf(2), LabelOf(1)>>}
    \cup {n \o <<RootLabel>> :
            n \in {<< >>, <<LabelOf(1)>>, <<Capital(1)>>, <<LabelOf(2)>>, <<LabelOf(2), LabelOf(1)>>,
                   <<LabelOf(1), LabelOf(1)>>, <<LabelOf(2), LabelOf(1), LabelOf(1)>>}}

\* A zone that an update finds.
Rr(t, d) == [name |-> "a", type |-> t, data |-> d]
TwoRecords == {Rr("A", 1), Rr("TXT", 1)}
=============================================================================
