-------------------------- MODULE PrimaryHostIndex --------------------------
(***************************************************************************)
(* GetPrimaryHostIndex of test/e2e/framework/mysql_group.go, the helper    *)
(* the group-replication tests use to learn which StatefulSet ordinal is   *)
(* the primary.  It asks a member for group_replication_primary_member,    *)
(* looks that member's MEMBER_HOST up, and parses the single character at  *)
(* offset len(mysql.Name)+1 of MEMBER_HOST with strconv.Atoi, ignoring the *)
(* error.  MEMBER_HOST is "<mysql>-<ordinal>" followed by the domain.      *)
(*                                                                         *)
(* Strings are sequences of one-character strings, so the formatting of    *)
(* the ordinal and its parsing are modelled by what they do.  A state is   *)
(* one call of the helper: the MySQL object's name and the primary's       *)
(* ordinal, or NoPrimary when the group has none.                          *)
(***************************************************************************)
EXTENDS Integers, Sequences

CONSTANTS
    Names,        \* MySQL object names, as sequences of characters
    Domain,       \* what MySQL appends to the pod name in MEMBER_HOST
    MaxOrdinal,   \* largest StatefulSet ordinal of the group
    NoPrimary     \* group_replication_primary_member is empty

VARIABLES
    name,         \* meta.Name of the MySQL object under test
    primary       \* ordinal of the group's primary, or NoPrimary

vars == <<name, primary>>

Char == <<"0", "1", "2", "3", "4", "5", "6", "7", "8", "9">>

\* fmt's %d of a natural number: its decimal digits, most significant first.
RECURSIVE Digits(_)
Digits(n) == IF n < 10 THEN <<Char[n + 1]>>
                       ELSE Digits(n \div 10) \o <<Char[(n % 10) + 1]>>

\* fmt.Sprintf("%s-%d", meta.Name, i): the name of the StatefulSet's pod i.
PodName(n, i) == n \o <<"-">> \o Digits(i)

\* strconv.Atoi of a one-character string, its error dropped (idx, _ :=):
\* the digit's value, or 0 for any other character.
AtoiChar(c) == IF \E d \in 0..9 : Char[d + 1] = c
                 THEN CHOOSE d \in 0..9 : Char[d + 1] = c
                 ELSE 0

\* Bug variant: the offset of the "-" instead of the character after it.
GetPrimaryHostIndexAtDash(n, host) ==
    IF host = <<>> THEN -1 ELSE AtoiChar(host[Len(n) + 1])

\* The lookups and the parse: -1 when the query for MEMBER_HOST returns no
\* row (no primary), else Atoi(MEMBER_HOST[len(meta.Name)+1]); Go indexes
\* from 0, TLA+ sequences from 1.
GetPrimaryHostIndex(n, host) ==
    IF host = <<>> THEN -1 ELSE AtoiChar(host[Len(n) + 2])

\* The primary's MEMBER_HOST as MySQL reports it, or no row.
MemberHost == IF primary = NoPrimary THEN <<>>
                                     ELSE PodName(name, primary) \o Domain

Init ==
    /\ name \in Names
    /\ primary \in (0..MaxOrdinal) \cup {NoPrimary}

\* The next call of the helper, for any object and group state.
Call ==
    /\ name' \in Names
    /\ primary' \in (0..MaxOrdinal) \cup {NoPrimary}

Spec == Init /\ [][Call]_vars

\* The helper returns the primary's ordinal, or -1 when there is no primary:
\* the tests compare it with the ordinal of the pod they expect to be the
\* primary (group_test.go: Should(Equal(0)), Or(Equal(1), Equal(2))).
IndexIsOrdinal ==
    GetPrimaryHostIndex(name, MemberHost)
        = IF primary = NoPrimary THEN -1 ELSE primary

=============================================================================
