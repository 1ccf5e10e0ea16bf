--------------------------- MODULE MCLiFiFunctions ---------------------------
(* Instances for TLC of what computes, encodes and distributes numbers:    *)
(* TdmaTable against its reference, the tags, the streams of the WiFi      *)
(* helper, the lists of channel, device, station and MAC helper, what the  *)
(* devices keep of signals and receptions, and the wiring that scripts do  *)
(* through the helpers.  They share no state: focus says which of them a   *)
(* behaviour is about, the others stay as they are initially.              *)
EXTENDS MCTdmaTable, LiFiTags, WifiApHelper, LiFiRegistry, LiFiStaLists,
        LiFiReceptions, LiFiSignal, LiFiWiring

VARIABLE focus

tableVars == <<infos, n>>
deviceVars == <<receptionVars, signalVars>>
functionsVars ==
    <<focus, tableVars, tagVars, wifiVars, registryVars, staListVars, deviceVars, wiringVars>>

OtherInfos == [d \in Dev |-> NoInfo]

FunctionsInit ==
    /\ TagsInit /\ WifiInit /\ RegistryInit /\ StaListsInit
    /\ ReceptionsInit /\ SignalInit /\ WiringInit
    /\ \/ focus = "table" /\ Init
       \/ /\ focus \in {"slots", "reports", "fields", "wifi", "lists", "managers",
                        "candidates", "positions", "models", "pool", "signal",
                        "wiring"}
          /\ infos = OtherInfos /\ n = 1

Tabulating ==
    /\ focus = "table" /\ Next
    /\ UNCHANGED <<focus, tagVars, wifiVars, registryVars, staListVars,
                   deviceVars, wiringVars>>
Tagging ==
    /\ \/ focus = "slots" /\ SlotsNext
       \/ focus = "reports" /\ ReportsNext
       \/ focus = "fields" /\ FieldsNext
    /\ UNCHANGED <<focus, tableVars, wifiVars, registryVars, staListVars,
                   deviceVars, wiringVars>>
Installing ==
    /\ focus = "wifi" /\ WifiNext
    /\ UNCHANGED <<focus, tableVars, tagVars, registryVars, staListVars,
                   deviceVars, wiringVars>>
Registering ==
    /\ \/ focus = "lists" /\ ListsNext
       \/ focus = "managers" /\ ManagersNext
    /\ UNCHANGED <<focus, tableVars, tagVars, wifiVars, staListVars,
                   deviceVars, wiringVars>>
Listing ==
    /\ \/ focus = "candidates" /\ CandidatesNext
       \/ focus = "positions" /\ StaSlotsNext
    /\ UNCHANGED <<focus, tableVars, tagVars, wifiVars, registryVars,
                   deviceVars, wiringVars>>

Receiving ==
    /\ \/ focus = "models" /\ ModelsNext
       \/ focus = "pool" /\ PoolNext
    /\ UNCHANGED <<focus, tableVars, tagVars, wifiVars, registryVars, staListVars,
                   signalVars, wiringVars>>

Transmitting ==
    /\ focus = "signal" /\ SignalNext
    /\ UNCHANGED <<focus, tableVars, tagVars, wifiVars, registryVars, staListVars,
                   receptionVars, wiringVars>>

Wiring ==
    /\ focus = "wiring" /\ (Configure \/ Operate)
    /\ UNCHANGED <<focus, tableVars, tagVars, wifiVars, registryVars, staListVars, deviceVars>>

FunctionsNext ==
    \/ Tabulating \/ Tagging \/ Installing \/ Registering
    \/ Listing \/ Receiving \/ Transmitting \/ Wiring

FunctionsSpec == FunctionsInit /\ [][FunctionsNext]_functionsVars

(* The slot table and its quota are those of the machine.                  *)
TableSound == QuotaIsMachineQuota /\ TableIsTwoPasses

(* Measurement reports, responses and capabilities, as they are read.      *)
TagsSurvive == ReportSurvives /\ FieldsSurvive

(* What the devices keep of what they send and receive.                    *)
DevicesKeep == ReceptionsKept /\ SignalLimited

(* Values that a configuration file cannot write.                          *)
Biases == {-1, 0, 1}

StreamsTaken ==
    [kind \in {"phy", "minstrel", "minstrelHt", "txop", "apMac"} |->
        IF kind = "minstrelHt" THEN 2 ELSE 1]
=============================================================================
