------------------------- MODULE MCMACLookupService -------------------------
(***************************************************************************)
(* TLC instance of MACLookupService: addresses of two digits, of which the *)
(* first names the maker.  Two are of different makers, one is of an       *)
(* unregistered maker and one malformed.                                   *)
(***************************************************************************)
EXTENDS MACLookupService, TLC

MCUpper    == "a" :> "A" @@ "A" :> "A" @@ "b" :> "B" @@ "B" :> "B" @@ "C" :> "C"
MCKeys     == {<<"a", ":", "b">>, <<"b", "A">>, <<"C", "-", "a">>, <<"A", ":">>}
MCRegistry == <<"A">> :> "acme" @@ <<"B">> :> "zeta" @@ <<"C">> :> Absent
MCResults  == {Record(k, m) : k \in Keys, m \in {"acme", "zeta", Absent}}
MCSizeOf   == [r \in MCResults |-> 1]
MCTTL      == "IP_GEOLOCATION" :> 1 @@ "MAC_OUI" :> 1 @@ "NEGATIVE" :> 0
=============================================================================
