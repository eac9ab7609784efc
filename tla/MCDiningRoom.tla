---------------------------- MODULE MCDiningRoom ----------------------------
(* DiningRoom for TLC: interchangeable tables, accounts and items.          *)
EXTENDS DiningRoom, TLC

\* A plan that divides a total of 3, and one with a negative part that does not.
MCRazones == {<<1, 2>>, <<-1, 3>>}

Symmetry == Permutations(Mesas) \cup Permutations(Cuentas) \cup Permutations(Partidas)

\* Accounts that were opened, not split off another.
Opened == {c \in Cuentas : cuentas[c].status # "AUSENTE" /\ cuentas[c].padre = NULL}

\* Bound: a behaviour is followed with two opened accounts, or with one and
\* its parts, and up to the first item id that is sent again.
Bound ==
    /\ Cardinality(Opened) <= IF \E c \in Cuentas : cuentas[c].padre # NULL THEN 1 ELSE 2
    /\ reenviadas = {}

\* What decides the further steps and the properties: no operation reads a
\* folio, to every waiter there is another one, tips are 0, and of an account
\* that ended only the table, the total and the items can still matter.
Columns(cuenta) ==
    IF cuenta.status \in {"PAGADA", "ANULADA"}
    THEN <<cuenta.mesa, cuenta.padre = NULL, IF cuenta.padre = NULL THEN cuenta.total ELSE 0>>
    ELSE <<cuenta.mesa, cuenta.padre = NULL, cuenta.total, cuenta.status>>

View == <<mesas, [c \in Cuentas |-> Columns(cuentas[c])], partidas, reenviadas>>
=============================================================================
