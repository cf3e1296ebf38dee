------------------------------- MODULE MCWifi -------------------------------
(***************************************************************************)
(* Small worlds for the WiFi interface.                                    *)
(***************************************************************************)
EXTENDS Wifi

Plain == [ssid |-> "home", akms |-> <<"Wpa2Psk">>, group |-> "Ccmp", wpa1 |-> FALSE,
          privacy |-> TRUE, hidden |-> FALSE, chan |-> 1, mdid |-> 0, managed |-> TRUE,
          rrm |-> FALSE, password |-> 1, h2e |-> FALSE]

\* 1 and 2 are one network, 4 and 5 a mobility domain, 3 is hidden and open;
\* 9 is open under the name of an encrypted network.
Beacons ==
    << [Plain EXCEPT !.rrm = TRUE],
       [Plain EXCEPT !.chan = 2],
       [Plain EXCEPT !.ssid = "cafe", !.akms = <<>>, !.privacy = FALSE, !.hidden = TRUE,
                     !.password = 0],
       [Plain EXCEPT !.ssid = "lab", !.akms = <<"Sae", "FtSae">>, !.mdid = 7, !.h2e = TRUE],
       [Plain EXCEPT !.ssid = "lab", !.akms = <<"FtSae">>, !.mdid = 7, !.chan = 2],
       [Plain EXCEPT !.ssid = "flat", !.akms = <<"Sae", "Wpa2Psk">>, !.h2e = TRUE],
       [Plain EXCEPT !.ssid = "corp", !.akms = <<"Wpa2Ent">>, !.chan = 2, !.password = 0],
       [Plain EXCEPT !.ssid = "free", !.akms = <<"Owe">>, !.password = 0],
       [Plain EXCEPT !.ssid = "flat", !.akms = <<>>, !.privacy = FALSE, !.password = 0] >>

MCAp == [b \in DOMAIN Beacons |-> Beacons[b] @@ [sec |-> DetectSecurity(Beacons[b])]]

Home == [ssid |-> "home", password |-> 1, eap |-> FALSE, pin |-> 0, prefered |-> FALSE,
         hidden |-> FALSE, roaming |-> FALSE, wowlan |-> FALSE, known |-> {}, free |-> 0]
Cafe == [Home EXCEPT !.ssid = "cafe", !.password = 0, !.hidden = TRUE]
Office == [Home EXCEPT !.roaming = TRUE, !.wowlan = TRUE]
Lab == [Home EXCEPT !.ssid = "lab", !.roaming = TRUE]
Flat == [Home EXCEPT !.ssid = "flat", !.prefered = TRUE, !.known = {6}]
Corp == [Home EXCEPT !.ssid = "corp", !.password = 0, !.eap = TRUE]
Free == [Home EXCEPT !.ssid = "free", !.password = 0, !.free = 8]

Other(net) == [net EXCEPT !.password = 2]

World(nets, fullmac, sig) == [nets |-> nets, fullmac |-> fullmac, pno |-> nets # <<Free>>, sig |-> sig]

MCWorlds ==
    { World(<<Home, Cafe>>, FALSE, <<3, 2, 1, 0, 0, 0, 0, 0, 0>>),
      World(<<Home, Cafe>>, TRUE,  <<3, 2, 1, 0, 0, 0, 0, 0, 0>>),
      World(<<Office>>,     FALSE, <<3, 2, 0, 0, 0, 0, 0, 0, 0>>),
      World(<<Lab>>,        FALSE, <<0, 0, 0, 3, 2, 0, 0, 0, 0>>),
      World(<<Flat, Corp>>, FALSE, <<0, 0, 0, 0, 0, 3, 2, 0, 3>>),
      World(<<Free>>,       FALSE, <<0, 0, 0, 0, 0, 0, 0, 3, 0>>) }

MCConfigs ==
    { {<<Home, Cafe>>, <<Other(Home), Cafe>>, <<Cafe>>},
      {<<Office>>, <<Other(Office)>>},
      {<<Flat, Corp>>, <<Corp, Flat>>, <<Other(Flat)>>} }
=============================================================================
