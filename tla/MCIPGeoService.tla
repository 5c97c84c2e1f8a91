--------------------------- MODULE MCIPGeoService ---------------------------
(***************************************************************************)
(* TLC instance of IPGeoService: an address in both files, one only the    *)
(* city file has, one the AS file cannot answer and the city file has not, *)
(* and one the city file cannot answer.                                    *)
(***************************************************************************)
EXTENDS IPGeoService, TLC

CONSTANTS i1, i2, i3, i4

MCCityDB  == i1 :> "entry" @@ i2 :> "entry" @@ i3 :> "no entry" @@ i4 :> "mmdb_error"
MCASNDB   == i1 :> "entry" @@ i2 :> "no entry" @@ i3 :> "mmdb_error" @@ i4 :> "entry"
MCResults == {Result(k, c, a) : k \in Keys, c \in BOOLEAN, a \in BOOLEAN}
MCSizeOf  == [r \in MCResults |-> IF Found(r) THEN 2 ELSE 1]
MCTTL     == "IP_GEOLOCATION" :> 1 @@ "MAC_OUI" :> 1 @@ "NEGATIVE" :> 0
=============================================================================
