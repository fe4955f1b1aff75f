---------------------------- MODULE MCSafeNetwork ----------------------------
(* Small instances of SafeNetwork for TLC. *)
EXTENDS SafeNetwork

CONSTANTS e0, a1, v1, v2

MCReloads == {<<Entry(e0, a1, <<v1, v2>>)>>, <<Entry(e0, "dhcp", <<>>)>>}
=============================================================================
