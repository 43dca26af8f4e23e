-------------------------- MODULE MCDeviceRegistry --------------------------
(* Small instances of DeviceRegistry for TLC.                                *)
EXTENDS DeviceRegistry

CONSTANTS phone, tablet, web, kiosk, p, noDevice, i1, i2, i3, x1

(* Two apps on one phone share its DeviceID; two clients send none.          *)
AllClients == {phone, tablet, web, kiosk}
AllDevices == {p, noDevice}
SharedDevice == [c \in AllClients |-> IF c \in {phone, tablet} THEN p ELSE noDevice]
AllTypes == [c \in AllClients |-> IF c = phone THEN "apns_voip"
                                  ELSE IF c = kiosk THEN "other" ELSE "unifiedpush"]
ThreeIds == {i1, i2, i3}
OneCallback == {x1}

=============================================================================
