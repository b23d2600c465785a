---------------------------- MODULE ResourcePool ----------------------------
(***************************************************************************)
(* toolkit::ResourcePool (include/Util/ResourcePool.h): objects are lent   *)
(* as shared pointers whose deleter puts them back.  A pool is kept alive  *)
(* by its owner and by every deleter between weakPool.lock() (l.149) and   *)
(* its end, so it may die in the hands of a thread that returns an object. *)
(* One step is one critical section under _mutex, or one change of a       *)
(* reference count.                                                        *)
(***************************************************************************)
EXTENDS Naturals, Sequences, SequencesExt

CONSTANTS
  Object,      (* the heap blocks that may hold an object                  *)
  Thread,      (* the threads that lend and return                         *)
  MaxPoolSize, (* bound on the sizes setSize is called with                *)
  NULL         (* no object                                                *)

ASSUME NullAssumption == NULL \notin Object
ASSUME SizeAssumption == MaxPoolSize \in Nat

VARIABLES
  heap,        (* the blocks that hold an object                           *)
  objs,        (* ResourcePool_l::_objs                                    *)
  poolsize,    (* ResourcePool_l::_poolsize                                *)
  lent,        (* the objects some ValuePtr points to                      *)
  quit,        (* those whose ValuePtr::quit() was called                  *)
  owner,       (* ResourcePool::pool still refers to the pool              *)
  hand,        (* per thread, the object its deleter is disposing of       *)
  strong       (* the threads whose deleter holds strongPool               *)

poolVars == <<heap, objs, poolsize, lent, quit, owner, hand, strong>>

PoolTypeOK ==
  /\ heap \subseteq Object
  /\ objs \in Seq(Object)
  /\ poolsize \in 0..MaxPoolSize
  /\ lent \subseteq Object
  /\ quit \subseteq Object
  /\ owner \in BOOLEAN
  /\ hand \in [Thread -> Object \cup {NULL}]
  /\ strong \subseteq Thread

PoolInit ==
  /\ heap = {}
  /\ objs = <<>>
  /\ poolsize = MaxPoolSize
  /\ lent = {}
  /\ quit = {}
  /\ owner = TRUE
  /\ hand = [t \in Thread |-> NULL]
  /\ strong = {}

(* The reference count of ResourcePool_l is not 0.                         *)
PoolExists == owner \/ strong # {}

(* The thread is in no deleter.                                            *)
Free(t) == hand[t] = NULL /\ t \notin strong

-----------------------------------------------------------------------------

Lend(o) ==
  /\ lent' = lent \cup {o}
  /\ quit' = quit \ {o}
  /\ UNCHANGED <<poolsize, owner, hand, strong>>

(* Mutant of ObtainIdle: the front object is lent but stays in the list.   *)
ObtainIdle_NoPop(t, o) ==
  /\ owner /\ Free(t)
  /\ objs # <<>> /\ o = Head(objs)
  /\ Lend(o)
  /\ UNCHANGED <<heap, objs>>

ObtainIdle(t, o) ==
  /\ owner /\ Free(t)
  /\ objs # <<>> /\ o = Head(objs)
  /\ objs' = Tail(objs)
  /\ Lend(o)
  /\ UNCHANGED heap

ObtainNew(t, o) ==
  /\ owner /\ Free(t)
  /\ objs = <<>> /\ o \in Object \ heap
  /\ heap' = heap \cup {o}
  /\ Lend(o)
  /\ UNCHANGED objs

Quit(o) ==
  /\ o \in lent
  /\ quit' = quit \cup {o}
  /\ UNCHANGED <<heap, objs, poolsize, lent, owner, hand, strong>>

(* The last ValuePtr to o goes: its deleter locks the weak pointer.        *)
Drop(t, o) ==
  /\ o \in lent /\ Free(t)
  /\ lent' = lent \ {o}
  /\ hand' = [hand EXCEPT ![t] = o]
  /\ strong' = IF PoolExists THEN strong \cup {t} ELSE strong
  /\ UNCHANGED <<heap, objs, poolsize, quit, owner>>

(* recycle(): a full list turns the object away.                           *)
Recycle(t) ==
  /\ hand[t] # NULL
  /\ t \in strong /\ hand[t] \notin quit
  /\ IF Len(objs) >= poolsize
       THEN heap' = heap \ {hand[t]} /\ UNCHANGED objs
       ELSE objs' = Append(objs, hand[t]) /\ UNCHANGED heap
  /\ hand' = [hand EXCEPT ![t] = NULL]
  /\ UNCHANGED <<poolsize, lent, quit, owner, strong>>

Delete(t) ==
  /\ hand[t] # NULL
  /\ t \notin strong \/ hand[t] \in quit
  /\ heap' = heap \ {hand[t]}
  /\ hand' = [hand EXCEPT ![t] = NULL]
  /\ UNCHANGED <<objs, poolsize, lent, quit, owner, strong>>

(* Mutant of Unref: only the owner's end empties the list, at once.        *)
Unref_OwnerOnly(own, str) ==
  /\ owner' = own
  /\ strong' = str
  /\ IF own \/ ~owner
       THEN UNCHANGED <<heap, objs>>
       ELSE heap' = heap \ ToSet(objs) /\ objs' = <<>>
  /\ UNCHANGED <<poolsize, lent, quit, hand>>

(* The reference counts that a step leaves behind; at 0 the destructor of  *)
(* ResourcePool_l deletes what is in the list.                             *)
Unref(own, str) ==
  /\ owner' = own
  /\ strong' = str
  /\ IF own \/ str # {}
       THEN UNCHANGED <<heap, objs>>
       ELSE heap' = heap \ ToSet(objs) /\ objs' = <<>>
  /\ UNCHANGED <<poolsize, lent, quit, hand>>

(* The deleter returns.                                                    *)
Release(t) == t \in strong /\ hand[t] = NULL /\ Unref(owner, strong \ {t})

(* ~ResourcePool.                                                          *)
DropOwner == owner /\ Unref(FALSE, strong)

SetSize(n) ==
  /\ owner
  /\ poolsize' = n
  /\ UNCHANGED <<heap, objs, lent, quit, owner, hand, strong>>

PoolNext ==
  \/ DropOwner
  \/ \E n \in 0..MaxPoolSize : SetSize(n)
  \/ \E o \in Object : Quit(o)
  \/ \E t \in Thread : Recycle(t) \/ Delete(t) \/ Release(t)
  \/ \E t \in Thread, o \in Object : ObtainIdle(t, o) \/ ObtainNew(t, o) \/ Drop(t, o)

PoolSpec == PoolInit /\ [][PoolNext]_poolVars

-----------------------------------------------------------------------------

InHand == {hand[t] : t \in Thread} \ {NULL}

(* Every object is in exactly one place: lent, idle in the list, or with   *)
(* one deleter; what is in a place has not been deleted, and what exists   *)
(* is in a place.  So nobody is lent an object another one uses, nothing   *)
(* is deleted twice and nothing leaks, the pool's own end in a deleter     *)
(* included (ResourcePool.h:80-109, 148-156).                              *)
OnePlace ==
  /\ heap = lent \cup ToSet(objs) \cup InHand
  /\ IsInjective(objs)
  /\ lent \cap ToSet(objs) = {}
  /\ InHand \cap (lent \cup ToSet(objs)) = {}
  /\ \A t, u \in Thread : hand[t] = hand[u] /\ hand[t] # NULL => t = u

(* A dead pool holds nothing: no deleter puts an object into a list that   *)
(* nobody will empty again (ResourcePool.h:149-152).                       *)
DeadPoolIsEmpty == ~PoolExists => objs = <<>>

(* An object given up with quit() is never idle, so never lent again       *)
(* (ResourcePool.h:50-54, 150).                                            *)
QuitIsFinal == quit \cap ToSet(objs) = {}
=============================================================================
