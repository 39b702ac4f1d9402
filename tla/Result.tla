------------------------------- MODULE Result -------------------------------
(***************************************************************************)
(* Result<T> of common/monad: a tag and a union of a value and an Error,   *)
(* whose constructors and destructors the class calls by hand.             *)
(*                                                                         *)
(* The content of an object is <<"value", v>>, <<"error", where>> with the *)
(* locations of the Error, or Dead once its destructor has run.  Objects   *)
(* that were moved from (by an assignment or expect()) are only assigned   *)
(* to or destroyed, and as_err() is called only when is_ok() says no: the  *)
(* class checks neither.  ERROR_PROPAGATE does not move: expand() returns  *)
(* an Error& and Result(Error) copies it, so the source is still whole,    *)
(* with the location of the propagation in its Error as well.              *)
(***************************************************************************)
EXTENDS Integers, Sequences

CONSTANTS
    Objects,    \* the Result objects of a program
    Values,     \* the values of T
    Locations,  \* the source locations
    MaxHops     \* the bound on the locations of an Error

ASSUME ResultAssumption == MaxHops \in Nat

VARIABLES
    built,      \* the objects in their lifetime
    is_valid,
    lives,      \* for each member of the union: constructions minus destructions
    content,    \* what m_internal holds
    meant,      \* what was put into the object: <<"value", v>> or <<"error", route>>
    lengthened, \* the objects whose Error also tells of propagations into others
    spent,      \* the objects that were moved from
    exited      \* expect() met an Error

vars == <<built, is_valid, lives, content, meant, lengthened, spent, exited>>

Dead == <<"dead">>
Members == {"valid_value", "err_value"}
Member(valid) == IF valid THEN "valid_value" ELSE "err_value"

Init ==
    /\ built = {} /\ spent = {} /\ lengthened = {} /\ exited = FALSE
    /\ is_valid = [o \in Objects |-> FALSE]
    /\ lives = [o \in Objects |-> [m \in Members |-> 0]]
    /\ content = [o \in Objects |-> Dead]
    /\ meant = [o \in Objects |-> Dead]

(* A constructor of Result: from Ok<T> or T, or from an Error.              *)
Construct(o, valid, c) ==
    /\ built' = built \cup {o}
    /\ is_valid' = [is_valid EXCEPT ![o] = valid]
    /\ lives' = [lives EXCEPT ![o][Member(valid)] = @ + 1]
    /\ meant' = [meant EXCEPT ![o] = c]

ConstructOk(o, v) ==
    /\ ~exited /\ o \notin built
    /\ Construct(o, TRUE, <<"value", v>>)
    /\ content' = [content EXCEPT ![o] = <<"value", v>>]
    /\ UNCHANGED <<lengthened, spent, exited>>

ConstructError(o, location) ==
    /\ ~exited /\ o \notin built
    /\ Construct(o, FALSE, <<"error", <<location>>>>)
    /\ content' = [content EXCEPT ![o] = <<"error", <<location>>>>]
    /\ UNCHANGED <<lengthened, spent, exited>>

(* The mutant control: expand on a copy of the Error.                       *)
ExpandedCopy(p, location) == content[p]

(* Error::expand                                                            *)
Expanded(p, location) == <<"error", Append(content[p][2], location)>>

(* return ERROR_PROPAGATE(p), into the object o of the caller: p's Error    *)
(* gets the location, and o's is made as a copy of it.                      *)
ErrorPropagate(o, p, location) ==
    /\ ~exited /\ o \notin built /\ p \in built \ spent
    /\ ~is_valid[p] /\ Len(content[p][2]) < MaxHops
    /\ Construct(o, FALSE, <<"error", Append(meant[p][2], location)>>)
    /\ content' = [content EXCEPT ![p] = Expanded(p, location), ![o] = Expanded(p, location)]
    /\ lengthened' = lengthened \cup {p} \cup (IF p \in lengthened THEN {o} ELSE {})
    /\ UNCHANGED <<spent, exited>>

(* this != &other                                                           *)
Differs(o, p) == o # p

(* The mutant control: the tag is taken over before the destructor runs.    *)
DestroyedByNewTag(o, p) == Member(is_valid[p])

(* The member of o that an assignment from p destroys.                      *)
DestroyedMember(o, p) == Member(is_valid[o])

(* What the new member is made of: the member of p, after o's was destroyed.*)
Source(o, p) == IF o = p THEN Dead ELSE content[p]

Assign(o, p) ==
    /\ ~exited /\ {o, p} \subseteq built /\ p \notin spent
    /\ IF Differs(o, p)
       THEN /\ lives' = [lives EXCEPT ![o] =
                   [m \in Members |-> @[m] - (IF m = DestroyedMember(o, p) THEN 1 ELSE 0)
                                           + (IF m = Member(is_valid[p]) THEN 1 ELSE 0)]]
            /\ is_valid' = [is_valid EXCEPT ![o] = is_valid[p]]
            /\ meant' = [meant EXCEPT ![o] = meant[p]]
            /\ lengthened' = (lengthened \ {o}) \cup (IF p \in lengthened THEN {o} ELSE {})
       ELSE UNCHANGED <<lives, is_valid, meant, lengthened>>
    /\ UNCHANGED <<built, exited>>

CopyAssign(o, p) ==
    /\ Assign(o, p)
    /\ content' = IF Differs(o, p) THEN [content EXCEPT ![o] = Source(o, p)] ELSE content
    /\ spent' = spent \ {o}

(* A moved-from value, or an Error without locations, stays in p.           *)
MovedFrom(c) == IF c[1] = "error" THEN <<"error", <<>>>> ELSE <<"moved">>

MoveAssign(o, p) ==
    /\ Assign(o, p)
    /\ IF Differs(o, p)
       THEN /\ content' = [content EXCEPT ![p] = MovedFrom(@), ![o] = Source(o, p)]
            /\ spent' = (spent \ {o}) \cup {p}
       ELSE UNCHANGED <<content, spent>>

(* expect() returns the value to be moved from, or prints the locations of  *)
(* the Error and exits.                                                     *)
expect(o) ==
    /\ ~exited /\ o \in built \ spent
    /\ IF is_valid[o]
       THEN /\ content' = [content EXCEPT ![o] = MovedFrom(@)]
            /\ spent' = spent \cup {o}
            /\ UNCHANGED exited
       ELSE exited' = TRUE /\ UNCHANGED <<content, spent>>
    /\ UNCHANGED <<built, is_valid, lives, meant, lengthened>>

Destroy(o) ==
    /\ ~exited /\ o \in built
    /\ built' = built \ {o} /\ spent' = spent \ {o} /\ lengthened' = lengthened \ {o}
    /\ lives' = [lives EXCEPT ![o][Member(is_valid[o])] = @ - 1]
    /\ content' = [content EXCEPT ![o] = Dead]
    /\ meant' = [meant EXCEPT ![o] = Dead]
    /\ UNCHANGED <<is_valid, exited>>

Next ==
    \E o \in Objects :
        \/ \E v \in Values : ConstructOk(o, v)
        \/ \E location \in Locations : ConstructError(o, location)
        \/ \E p \in Objects, location \in Locations : ErrorPropagate(o, p, location)
        \/ \E p \in Objects : CopyAssign(o, p) \/ MoveAssign(o, p)
        \/ expect(o)
        \/ Destroy(o)

Spec == Init /\ [][Next]_vars

-----------------------------------------------------------------------------
(* Every member of the union is destroyed exactly as often as it was        *)
(* constructed, and while the object lives the member that its tag names is *)
(* the one that does: no sequence of assignments, propagations and moves    *)
(* lets the hand-written destructor calls meet a dead or the wrong member.  *)
OneMemberLives ==
    \A o \in Objects, m \in Members :
        lives[o][m] = IF o \in built /\ m = Member(is_valid[o]) THEN 1 ELSE 0

(* The route is passed through, from its first location on and in order.    *)
TellsOf(where, route) ==
    \E f \in [1 .. Len(route) -> 1 .. Len(where)] :
        /\ f[1] = 1
        /\ \A i, j \in 1 .. Len(route) : i < j => f[i] < f[j]
        /\ \A i \in 1 .. Len(route) : where[f[i]] = route[i]

(* What an object holds is what was put into it, until it is moved from,    *)
(* through any chain of assignments and propagations, itself as the source  *)
(* included: the value, or the Error with the location where it arose and   *)
(* the ones it was propagated through, in order, and no others unless the   *)
(* object, or one its Error was taken from, is the source of another        *)
(* propagation as well: expand() then left that location in it.             *)
HoldsWhatWasPut ==
    \A o \in built \ spent :
        /\ is_valid[o] \/ o \notin lengthened => content[o] = meant[o]
        /\ ~is_valid[o] => TellsOf(content[o][2], meant[o][2])
=============================================================================
