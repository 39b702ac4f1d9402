------------------------------ MODULE JsonDom ------------------------------
(***************************************************************************)
(* The SAX consumers of ext/nlohmann/json.hpp that build a value while a   *)
(* text is parsed: json_sax_dom_parser, json_sax_dom_callback_parser (a    *)
(* user callback says which parts to keep) and json_sax_acceptor (builds   *)
(* nothing).                                                               *)
(*                                                                         *)
(* Both builders hold raw pointers into the value that is growing, so the  *)
(* memory is modelled: a cell is the storage of one basic_json, a pointer  *)
(* is a cell's address.  An array owns the cells of its elements through   *)
(* a vector: emplace_back may move the elements to new cells and free the  *)
(* old ones, and does so here every time, which is what the standard lets  *)
(* a pointer rely on.  An object owns its cells through a map, whose cells *)
(* never move.                                                             *)
(*                                                                         *)
(* A consumer is a record s; each event maps it to the next.               *)
(***************************************************************************)
EXTENDS Integers, Sequences, SequencesExt, FiniteSets

Root == 0           \* the cell of the value that parse() fills in
NullPtr == -1

Leaf(x) == <<"leaf", x>>
NullValue == <<"null">>
DiscardedValue == <<"discarded">>
EmptyArray == <<"array", <<>>>>
EmptyObject == <<"object", [k \in {} |-> Root]>>

IsArrayCell(s, p) == s.cells[p][1] = "array"
IsObjectCell(s, p) == s.cells[p][1] = "object"

\* A consumer before the first event.
NewConsumer ==
    [cells |-> [c \in {Root} |-> NullValue], next |-> Root + 1, ref_stack |-> <<>>,
     object_element |-> NullPtr, keep_stack |-> <<TRUE>>, key_keep_stack |-> <<>>,
     errored |-> FALSE]

\* The outcome of handle_value: the consumer, and the address of the value.
Handled(s, p) == [consumer |-> s, element |-> p]

\* Assignment to the basic_json at p.
Assign(s, p, v) == [s EXCEPT !.cells[p] = v]

\* vector::emplace_back, with the move of the elements to new storage.
EmplaceBack(s, p, v) ==
    LET elements == s.cells[p][2]
        n == Len(elements)
        freed == ToSet(elements)
        storage == s.next .. s.next + n
        moved(c) == IF c = s.next + n THEN v ELSE s.cells[elements[c - s.next + 1]]
        array == <<"array", [i \in 1..n + 1 |-> s.next + i - 1]>>
    IN  Handled([s EXCEPT !.cells = [c \in (DOMAIN s.cells \ freed) \cup storage |->
                                        IF c \in storage THEN moved(c)
                                        ELSE IF c = p THEN array ELSE s.cells[c]],
                          !.next = @ + n + 1],
                s.next + n)

\* map::operator[]: the element of a key that is new is a null value.
Subscript(s, p, key) ==
    LET members == s.cells[p][2]
        object == <<"object", [k \in DOMAIN members \cup {key} |->
                                  IF k = key THEN s.next ELSE members[k]]>>
    IN  IF key \in DOMAIN members THEN Handled(s, members[key])
        ELSE Handled([s EXCEPT !.cells = [c \in DOMAIN s.cells \cup {s.next} |->
                                             IF c = s.next THEN NullValue
                                             ELSE IF c = p THEN object ELSE s.cells[c]],
                               !.next = @ + 1],
                     s.next)

-----------------------------------------------------------------------------
(* json_sax_dom_parser *)

HandleValue(s, v) ==
    IF s.ref_stack = <<>> THEN Handled(Assign(s, Root, v), Root)
    ELSE IF IsArrayCell(s, Last(s.ref_stack)) THEN EmplaceBack(s, Last(s.ref_stack), v)
    ELSE Handled(Assign(s, s.object_element, v), s.object_element)

Push(h) == [h.consumer EXCEPT !.ref_stack = Append(@, h.element)]

DomValue(s, v) == HandleValue(s, v).consumer
DomStart(s, empty) == Push(HandleValue(s, empty))

DomKey(s, key) ==
    LET h == Subscript(s, Last(s.ref_stack), key)
    IN  [h.consumer EXCEPT !.object_element = h.element]

DomEnd(s) == [s EXCEPT !.ref_stack = Front(@)]

-----------------------------------------------------------------------------
(* json_sax_dom_callback_parser.  keep is what the callback returns.       *)

\* A value that is not stored.
Skipped(s) == Handled(s, NullPtr)

\* The element of the current key, unless the callback rejected the key.
StoreElement(s, v) ==
    LET store_element == Last(s.key_keep_stack)
        popped == [s EXCEPT !.key_keep_stack = Front(@)]
    IN  IF store_element THEN Handled(Assign(popped, s.object_element, v), s.object_element)
        ELSE Skipped(popped)

CallbackHandleValue(s, v, keep) ==
    IF ~Last(s.keep_stack) \/ ~keep THEN Skipped(s)
    ELSE IF s.ref_stack = <<>> THEN Handled(Assign(s, Root, v), Root)
    ELSE IF Last(s.ref_stack) = NullPtr THEN Skipped(s)
    ELSE IF IsArrayCell(s, Last(s.ref_stack)) THEN EmplaceBack(s, Last(s.ref_stack), v)
    ELSE StoreElement(s, v)

CallbackValue(s, v, keep) == CallbackHandleValue(s, v, keep).consumer

CallbackStart(s, empty, keep) ==
    Push(CallbackHandleValue([s EXCEPT !.keep_stack = Append(@, keep)], empty, TRUE))

\* A mutant: the reference of the element is not stored.
StaleElement(s, key, keep) ==
    LET pushed == [s EXCEPT !.key_keep_stack = Append(@, keep)]
        h == Subscript(pushed, Last(s.ref_stack), key)
    IN  IF ~keep \/ Last(s.ref_stack) = NullPtr THEN pushed
        ELSE Assign(h.consumer, h.element, DiscardedValue)

\* A mutant: a key that is repeated keeps its member until the new value.
KeepsMember(s, key, keep) ==
    LET pushed == [s EXCEPT !.key_keep_stack = Append(@, keep)]
        container == Last(s.ref_stack)
        h == Subscript(pushed, container, key)
        known == key \in DOMAIN s.cells[container][2]
    IN  IF ~keep \/ container = NullPtr THEN pushed
        ELSE [(IF known THEN h.consumer ELSE Assign(h.consumer, h.element, DiscardedValue))
                 EXCEPT !.object_element = h.element]

CallbackKey(s, key, keep) ==
    LET pushed == [s EXCEPT !.key_keep_stack = Append(@, keep)]
        h == Subscript(pushed, Last(s.ref_stack), key)
    IN  IF ~keep \/ Last(s.ref_stack) = NullPtr THEN pushed
        ELSE [Assign(h.consumer, h.element, DiscardedValue) EXCEPT !.object_element = h.element]

\* What both end events do first: discard the container, leave it.
LeaveContainer(s, keep) ==
    LET p == Last(s.ref_stack)
        closed == IF p # NullPtr /\ ~keep THEN Assign(s, p, DiscardedValue) ELSE s
    IN  [closed EXCEPT !.ref_stack = Front(@), !.keep_stack = Front(@)]

\* The position of the first discarded element of an array, 0 if none is.
FirstDiscarded(s, elements) ==
    LET found == {i \in DOMAIN elements : s.cells[elements[i]] = DiscardedValue}
    IN  IF found = {} THEN 0 ELSE CHOOSE i \in found : \A j \in found : i <= j

\* The keys of the discarded members of an object, in the order of keys.
DiscardedKeys(s, members, keys) ==
    SelectSeq(keys, LAMBDA k : k \in DOMAIN members /\ s.cells[members[k]] = DiscardedValue)

\* erase() of the first discarded element of the container at p, in the
\* order of iteration (of the keys, for an object).  In an array it is the
\* last element: no other has to move.
EraseDiscarded(s, p, keys) ==
    LET content == s.cells[p][2]
        i == FirstDiscarded(s, content)
        gone == DiscardedKeys(s, content, keys)
    IN  IF IsArrayCell(s, p)
        THEN IF i = 0 THEN s ELSE Assign(s, p, <<"array", RemoveAt(content, i)>>)
        ELSE IF gone = <<>> THEN s
             ELSE Assign(s, p, <<"object", [k \in DOMAIN content \ {Head(gone)} |-> content[k]]>>)

\* keys is the order of the map's keys.
CallbackEndObject(s, keep, keys) ==
    LET left == LeaveContainer(s, keep)
        p == Last(left.ref_stack)
    IN  IF left.ref_stack = <<>> \/ p = NullPtr THEN left
        ELSE EraseDiscarded(left, p, keys)

\* The array itself is the last element of the array around it.
CallbackEndArray(s, keep) ==
    LET left == LeaveContainer(s, keep)
        p == Last(left.ref_stack)
        discarded == Last(s.ref_stack) # NullPtr /\ ~keep
    IN  IF discarded /\ left.ref_stack # <<>> /\ IsArrayCell(left, p)
        THEN Assign(left, p, <<"array", Front(left.cells[p][2])>>)
        ELSE left

-----------------------------------------------------------------------------
\* parse_error, of every consumer.
ConsumerError(s) == [s EXCEPT !.errored = TRUE]
=============================================================================
