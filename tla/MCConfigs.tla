------------------------------ MODULE MCConfigs ------------------------------
(* A small instance of Validations, and so of Configs, for TLC.             *)
EXTENDS Validations, TLC

MCCountries == {"HK", "TW", "US", "JP"}

\* A cheap node in Taiwan that Japan's pattern matches too, a landing node in
\* Hong Kong, and nodes of the United States and of no known country.
MCNames == {"tw_cheap", "hk_landing", "us", "other"}
MCCountryOf == [n \in MCNames |-> CASE n = "tw_cheap" -> "TW"
                                    [] n = "hk_landing" -> "HK"
                                    [] n = "us" -> "US"
                                    [] OTHER -> None]

MCCountryNames ==
    [c \in MCCountries |-> {n \in MCNames : MCCountryOf[n] = c} \cup IF c = "JP" THEN {"tw_cheap"} ELSE {}]

MCSymmetry == Permutations(Subs)
=============================================================================
