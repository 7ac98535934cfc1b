------------------------------ MODULE MCDeviceJob ------------------------------
(* A WiFred and a LongFred programmed with and without a key, and an       *)
(* update of each kind that gets anywhere or is refused.                   *)
EXTENDS DeviceJob

App == [header |-> "e9", name |-> "app.bin", size |-> "large"]
Merged == [header |-> "e9", name |-> "bin", size |-> "large"]
Other == [header |-> "other", name |-> "bin", size |-> "small"]
NoFile == [header |-> "other", name |-> "other", size |-> "empty"]

Program(driver, mode, key, asks, off) ==
    [driver |-> driver, op |-> "program", mode |-> mode,
     key |-> key, asks |-> asks, off |-> off, image |-> NoImage]
Update(driver, mode, image) ==
    [driver |-> driver, op |-> "updateFirmware", mode |-> mode,
     key |-> FALSE, asks |-> {}, off |-> {}, image |-> image]

(* A WiFred with a locomotive, its functions and a flag to be put on and   *)
(* one off, and one without locomotives; a LongFred asked for all it has   *)
(* and more, and one for as little as can be.                              *)
AllOfIt == LocoFields \cup {"identity", "server", "automatic"}
Uploads == {Update("longfred", "lan", App), Update("rb23xx", "ap", Other)}

AllCalls ==
    Uploads \cup
    {Program("wifred", "ap", TRUE, AllOfIt, {"long"}),
     Program("wifred", "ap", FALSE, {"identity", "server"}, {}),
     Program("longfred", "ap", TRUE, Fields, {"long"}),
     Program("longfred", "ap", FALSE, {"server"}, {}),
     Program("rb23xx", "ap", TRUE, {}, {}), Program("fred", "z21", FALSE, {}, {}),
     Update("longfred", "ap", Merged), Update("rb23xx", "ap", NoFile),
     Update("rb23xx", "lan", Other),
     Update("longfred", "usb", Merged), Update("longfred", "usb", Other)}
=============================================================================
