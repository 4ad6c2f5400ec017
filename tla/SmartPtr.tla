------------------------------ MODULE SmartPtr ------------------------------
(***************************************************************************)
(* SmartPtr with its default policies (smartptr.hh): the pointers to       *)
(* tables, columns, metadata, ... that the engines hand out.  Copies share *)
(* a counter; the one that takes it to zero deletes the pointee.  Pointees *)
(* and counters are memory: a place that was freed can be used again.      *)
(***************************************************************************)
EXTENDS Integers, FiniteSets

CONSTANTS
  Ptrs,     \* the variables that may hold a pointer
  Pointees, \* the places of objects
  Counters, \* the places of counters
  Null,     \* no pointee
  Gone      \* a variable that does not exist

ASSUME PlacesAssumption ==
  /\ IsFiniteSet(Ptrs)
  /\ Null \notin Pointees /\ Gone \notin [m_pointee : Pointees \union {Null}, m_count : Counters]

VARIABLES
  ptr,    \* [Ptrs -> Gone, or the members m_pointee and m_count]
  count,  \* [Counters -> the number it holds, 0 for a place that is free]
  alive,  \* the objects that are not deleted
  fault   \* was freed memory used, or freed again?

ptrVars == <<ptr, count, alive, fault>>

Handles == [m_pointee : Pointees \union {Null}, m_count : Counters]

PtrInit ==
  /\ ptr = [p \in Ptrs |-> Gone]
  /\ count = [c \in Counters |-> 0]
  /\ alive = {}
  /\ fault = FALSE

Exists(p) == ptr[p] # Gone

-----------------------------------------------------------------------------
(* Counters and pointees                                                   *)

\* RefCounted::release() and, for the last copy, DefaultStorage::destroy(): what
\* becomes of the memory.
Release(counts, objects, h) ==
  LET left == counts[h.m_count] - 1
  IN  [count |-> [counts EXCEPT ![h.m_count] = left],
       alive |-> IF left = 0 THEN objects \ {h.m_pointee} ELSE objects,
       fault |-> counts[h.m_count] = 0 \/ (left = 0 /\ h.m_pointee \notin objects \union {Null})]

\* A bug: the copy shares the counter and does not count.
Clone_Uncounted(counts, h) == counts

\* RefCounted::clone()
Clone(counts, h) == [counts EXCEPT ![h.m_count] = @ + 1]

\* What a destructor leaves of the memory.
Freed(r) == count' = r.count /\ alive' = r.alive /\ fault' = (fault \/ r.fault)

-----------------------------------------------------------------------------
(* The calls                                                               *)

\* SmartPtr(p) of a new object or of 0, and SmartPtr(): a counter of its own.
construct(p, x, c) ==
  /\ ~Exists(p) /\ count[c] = 0 /\ x \notin alive
  /\ ptr' = [ptr EXCEPT ![p] = [m_pointee |-> x, m_count |-> c]]
  /\ count' = [count EXCEPT ![c] = 1]
  /\ alive' = alive \union ({x} \ {Null})
  /\ UNCHANGED fault

\* SmartPtr(orig)
copy(p, orig) ==
  /\ ~Exists(p) /\ Exists(orig)
  /\ ptr' = [ptr EXCEPT ![p] = ptr[orig]]
  /\ count' = Clone(count, ptr[orig])
  /\ fault' = (fault \/ count[ptr[orig].m_count] = 0)
  /\ UNCHANGED alive

\* operator=(orig): a copy is swapped with the pointer and destroyed.
assign(p, orig) ==
  /\ Exists(p) /\ Exists(orig)
  /\ ptr' = [ptr EXCEPT ![p] = ptr[orig]]
  /\ Freed(Release(Clone(count, ptr[orig]), alive, ptr[p]))

swap(p, q) ==
  /\ Exists(p) /\ Exists(q)
  /\ ptr' = [ptr EXCEPT ![p] = ptr[q], ![q] = ptr[p]]
  /\ UNCHANGED <<count, alive, fault>>

\* ~SmartPtr()
destroy(p) ==
  /\ Exists(p)
  /\ ptr' = [ptr EXCEPT ![p] = Gone]
  /\ Freed(Release(count, alive, ptr[p]))

\* reset(sp, p), the function: a new pointer is swapped with this one.
resetTo(p, x, c) ==
  /\ Exists(p) /\ count[c] = 0 /\ x \notin alive
  /\ ptr' = [ptr EXCEPT ![p] = [m_pointee |-> x, m_count |-> c]]
  /\ LET r == Release([count EXCEPT ![c] = 1], alive \union ({x} \ {Null}), ptr[p])
     IN  Freed(r)

\* sp.reset(value), the member: the pointee is deleted whoever shares it, so it
\* is for a pointer without copies.
reset(p, x) ==
  /\ Exists(p) /\ count[ptr[p].m_count] = 1 /\ x \notin alive
  /\ ptr' = [ptr EXCEPT ![p].m_pointee = x]
  /\ alive' = (alive \ {ptr[p].m_pointee}) \union ({x} \ {Null})
  /\ fault' = (fault \/ ptr[p].m_pointee \notin alive \union {Null})
  /\ UNCHANGED count

Objects == Pointees \union {Null}

PtrNext ==
  \/ \E p \in Ptrs, x \in Objects, c \in Counters : construct(p, x, c) \/ resetTo(p, x, c)
  \/ \E p, q \in Ptrs : copy(p, q) \/ assign(p, q) \/ swap(p, q)
  \/ \E p \in Ptrs : destroy(p) \/ \E x \in Objects : reset(p, x)

PtrSpec == PtrInit /\ [][PtrNext]_ptrVars

-----------------------------------------------------------------------------
PtrTypeOK ==
  /\ ptr \in [Ptrs -> Handles \union {Gone}]
  /\ count \in [Counters -> Nat]
  /\ alive \subseteq Pointees
  /\ fault \in BOOLEAN

Users(c) == {p \in Ptrs : Exists(p) /\ ptr[p].m_count = c}

\* A counter says how many pointers there are with it, none if it is free.
CountsUsers == \A c \in Counters : count[c] = Cardinality(Users(c))

\* Pointers have the same object if, and only if, they share a counter, and the
\* object is there as long as one of them is.
SharedOrApart ==
  \A p, q \in Ptrs :
    Exists(p) /\ Exists(q) =>
      /\ ptr[p].m_count = ptr[q].m_count => ptr[p].m_pointee = ptr[q].m_pointee
      /\ ptr[p].m_pointee = ptr[q].m_pointee /\ ptr[p].m_pointee # Null =>
           ptr[p].m_count = ptr[q].m_count

\* The objects that exist are those a pointer has.
NoneLost == alive = {ptr[p].m_pointee : p \in {q \in Ptrs : Exists(q)}} \ {Null}

\* Pointers own their object together: it lives as long as one of them exists
\* and not longer, and nothing is deleted twice, whatever is copied, assigned to
\* itself or to a copy, swapped or reset, in whatever order.
OwnedTogether == CountsUsers /\ SharedOrApart /\ NoneLost /\ ~fault
=============================================================================
