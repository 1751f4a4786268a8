---------------------------- MODULE AddressBook ----------------------------
(***************************************************************************)
(* What the registry promises the phones, without saying how: a book of    *)
(* registrations in which a channel carries one registration and an        *)
(* address is assigned once, also when its registration has been removed.  *)
(* Directory implements it.                                                *)
(***************************************************************************)
CONSTANTS Address,   \* addresses a phone may be assigned
          Seeds,     \* seeds
          Channel    \* connections

VARIABLES book,      \* the registrations
          assigned   \* the addresses given so far

Entry == [addr : Address, seed : Seeds, sock : Channel]

BookInit == book = {} /\ assigned = {}

\* A phone is given an address nobody has had, for a channel that carries no registration.
Assign(e) ==
  /\ e.addr \notin assigned
  /\ \A f \in book : f.sock # e.sock
  /\ book' = book \cup {e}
  /\ assigned' = assigned \cup {e.addr}

\* A registration may be removed.
Unregister(e) ==
  /\ book' = book \ {e}
  /\ UNCHANGED assigned

BookNext == \/ \E e \in book' : e \in Entry /\ Assign(e)
            \/ \E e \in book : Unregister(e)

BookSpec == BookInit /\ [][BookNext]_<<book, assigned>>
=============================================================================
