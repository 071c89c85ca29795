------------------------------- MODULE Dnssec -------------------------------
(***************************************************************************)
(* dns.dnssec: a zone signs a record set, which changes, with its keys; a  *)
(* resolver validates what it has fetched of it, with the keys it holds.   *)
(* A signature is what it was made over and the key that made it: nobody   *)
(* makes one of a key he does not have, and what is signed is not guessed. *)
(***************************************************************************)
EXTENDS Naturals, Sequences, FiniteSets, SequencesExt

CONSTANTS
    ZoneKeys,       \* the keys there are, in a DNSKEY set's order: [id, tag, algorithm, malformed]
    DenySign,       \* the algorithms that rfc_8624_policy does not sign with
    DenyValidate,   \* and those it does not validate
    KnownHash,      \* the algorithms of _make_hash()
    SignedOwner,    \* the record set's owner
    ExpandedOwners, \* names a wildcard owner stands for
    RRsetData,      \* what the record set may hold
    MaxSignatures,  \* bound: RRSIGs
    SignatureLifetime,
    MaxSecTime      \* bound on the clock

ASSUME DnssecAssumption ==
    /\ MaxSignatures \in Nat /\ SignatureLifetime \in Nat /\ MaxSecTime \in Nat
    /\ ZoneKeys \in Seq(Range(ZoneKeys)) /\ RRsetData # {}
    /\ \A k \in Range(ZoneKeys) : k.malformed \in BOOLEAN
    /\ \A k, l \in Range(ZoneKeys) : k.id = l.id => k = l
    /\ {SignedOwner} \cup ExpandedOwners \subseteq Seq(STRING)

VARIABLES
    secTime,    \* the clock
    signedData, \* the record set now
    rrsigs,     \* and its RRSIG set, in the order they were added
    fetched,       \* what the resolver has: [keys, owner, data, sigs]
    signings    \* who has signed what (not in the code)

dnssecVars == <<secTime, signedData, rrsigs, fetched, signings>>

DnssecInit ==
    /\ secTime = 0
    /\ signedData = CHOOSE d \in RRsetData : TRUE
    /\ rrsigs = << >>
    /\ fetched = [keys |-> {}, owner |-> SignedOwner, data |-> signedData, sigs |-> << >>]
    /\ signings = {}

-----------------------------------------------------------------------------
(* Signing. *)

\* _make_rrsig_signature_data(): of an owner with more labels than were signed
\* the wildcard is taken, of one with fewer nothing.
NoData == [name |-> << >>, fixed |-> << >>, rdatas |-> << >>]
SignatureData(owner, data, sig) ==
    LET name == IF sig.labels < Len(owner)
                THEN <<"*">> \o SubSeq(owner, Len(owner) - sig.labels + 1, Len(owner)) ELSE owner
    IN  IF Len(owner) < sig.labels THEN NoData
        ELSE [name |-> name, rdatas |-> data,
              fixed |-> <<sig.algorithm, sig.labels, sig.inception, sig.expiration, sig.tag>>]

\* sign(): the labels that are counted are all of the owner's, of a wildcard
\* the asterisk as well.
Rrsig(key) ==
    LET template == [algorithm |-> key.algorithm, labels |-> Len(SignedOwner), inception |-> secTime,
                     expiration |-> secTime + SignatureLifetime, tag |-> key.tag,
                     by |-> key.id, over |-> NoData]
    IN  [template EXCEPT !.over = SignatureData(SignedOwner, signedData, template)]

\* With the default policy, or one that denies nothing.
Sign(key, policyDenies) ==
    /\ Len(rrsigs) < MaxSignatures
    /\ key.algorithm \notin policyDenies /\ key.algorithm \in KnownHash /\ ~key.malformed
    /\ rrsigs' = Append(rrsigs, Rrsig(key))
    /\ signings' = signings \cup {[key |-> key, data |-> signedData, at |-> secTime]}
    /\ UNCHANGED <<secTime, signedData, fetched>>

ChangeData ==
    /\ signedData' \in RRsetData \ {signedData}
    /\ UNCHANGED <<secTime, rrsigs, fetched, signings>>

\* The keys are those of some DNSKEY set the zone has had.
FetchKeys(keys) ==
    /\ fetched.keys = {} /\ fetched' = [fetched EXCEPT !.keys = keys]
    /\ UNCHANGED <<secTime, signedData, rrsigs, signings>>

\* The answer has the name that was asked for, not the wildcard.
FetchRRset(owner) ==
    /\ fetched' = [fetched EXCEPT !.owner = owner, !.data = signedData, !.sigs = rrsigs]
    /\ UNCHANGED <<secTime, signedData, rrsigs, signings>>

SecTimePasses ==
    /\ secTime < MaxSecTime /\ secTime' = secTime + 1
    /\ UNCHANGED <<signedData, rrsigs, fetched, signings>>

-----------------------------------------------------------------------------
(* Validating. *)

HasTag(key, sig) == key \in fetched.keys /\ key.algorithm = sig.algorithm /\ key.tag = sig.tag

\* Faulty variant: of the keys with the tag, only the first is tried.
CandidateKeys_First(sig) ==
    {i \in DOMAIN ZoneKeys : HasTag(ZoneKeys[i], sig) /\ \A j \in 1..i - 1 : ~HasTag(ZoneKeys[j], sig)}

\* _find_candidate_keys(): their positions in ZoneKeys.
CandidateKeys(sig) == {i \in DOMAIN ZoneKeys : HasTag(ZoneKeys[i], sig)}

\* The first that ends the loop, of the outcomes at some positions, each of
\* them "no" or what does.
Decided(outcomes) ==
    IF \E i \in DOMAIN outcomes : outcomes[i] # "no"
    THEN outcomes[CHOOSE i \in DOMAIN outcomes :
                    outcomes[i] # "no" /\ \A j \in DOMAIN outcomes : j < i => outcomes[j] = "no"]
    ELSE "no"

\* _validate_signature(); a key that cannot be unpacked raises what validate()
\* does not catch.
Verified(sig, data, key) ==
    CASE key.malformed -> "error"
      [] ~key.malformed /\ sig.by = key.id /\ sig.over = data -> "valid"
      [] OTHER -> "no"

\* _validate_rrsig().
Outcome(sig, denied) ==
    LET keys == {i \in CandidateKeys(sig) : ZoneKeys[i].algorithm \notin denied}
        data == SignatureData(fetched.owner, fetched.data, sig)
    IN  IF secTime > sig.expiration \/ secTime < sig.inception \/ data = NoData
           \/ sig.algorithm \notin KnownHash
        THEN "no" ELSE Decided([i \in keys |-> Verified(sig, data, ZoneKeys[i])])

\* _validate(), for a record set and the RRSIGs of the same owner.
Validated(denied) == Decided([i \in DOMAIN fetched.sigs |-> Outcome(fetched.sigs[i], denied)])

DnssecNext ==
    \/ \E key \in Range(ZoneKeys), denies \in {DenySign, {}} : Sign(key, denies)
    \/ \E keys \in SUBSET Range(ZoneKeys) : FetchKeys(keys)
    \/ ChangeData \/ SecTimePasses
    \/ \E owner \in {SignedOwner} \cup ExpandedOwners : FetchRRset(owner)

DnssecSpec == DnssecInit /\ [][DnssecNext]_dnssecVars

-----------------------------------------------------------------------------
(* Properties. *)

\* What was signed with a key the resolver holds, still is valid, and is among
\* the signatures it has.
Vouched(denied) ==
    {s \in signings : /\ s.key \in fetched.keys /\ s.key.algorithm \notin denied
                      /\ s.data = fetched.data /\ s.at <= secTime /\ secTime <= s.at + SignatureLifetime
                      /\ \E sig \in Range(fetched.sigs) : sig.by = s.key.id /\ sig.inception = s.at
                                                       /\ sig.over.rdatas = s.data}

\* Whatever the resolver holds of keys, data and signatures of different times,
\* it takes the data for valid exactly when a key that it holds, and that its
\* policy allows, has signed just that; keys with the same tag do not hide each
\* other.  A key that cannot be read is the exception, and so is a name that a
\* wildcard was expanded to: sign() counts the asterisk, and none validates.
ValidatedIsSigned ==
    \A denied \in {DenyValidate, {}} :
        /\ Validated(denied) = "valid" => Vouched(denied) # {} /\ fetched.owner = SignedOwner
        /\ Vouched(denied) # {} /\ fetched.owner = SignedOwner => Validated(denied) # "no"
        /\ Validated(denied) = "error" => \E k \in fetched.keys : k.malformed
=============================================================================
