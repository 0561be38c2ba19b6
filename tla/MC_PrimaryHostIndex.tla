------------------------- MODULE MC_PrimaryHostIndex -------------------------
(* MySQL object names of one to four characters that are DNS-1035 labels   *)
(* over "a", "1" and "-" (a letter first, an alphanumeric last), as the    *)
(* object's Service and pods require, and the governing service's domain.  *)
EXTENDS PrimaryHostIndex

Alnum == {"a", "1"}
Inner == Alnum \cup {"-"}

MCNames ==
    {<<"a">>} \cup {<<"a", y>> : y \in Alnum}
        \cup {<<"a", x, y>> : x \in Inner, y \in Alnum}
        \cup {<<"a", x, w, y>> : x, w \in Inner, y \in Alnum}

MCDomain == <<".", "d", "b", "-", "g", "v", "r">>
=============================================================================
