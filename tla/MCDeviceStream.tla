---------------------------- MODULE MCDeviceStream ---------------------------
(* Two devices, of which a list shows one; the newer one has moved to      *)
(* another project, and the serial number of the older one looks like      *)
(* another number.                                                         *)
EXTENDS DeviceStream

MCDevices == {1, 2}
MCAsRead == [d \in MCDevices |-> IF d = 1 THEN 0 ELSE d]
MCPlaces == [d \in MCDevices |-> IF d = 2 THEN {"here", "there"} ELSE {"here"}]
MCProjectOf == [p \in {"here", "there"} |-> IF p = "here" THEN "one" ELSE "another"]

Stream(d, p, h) == [of |-> d, project |-> p, headers |-> h]

\* All devices, with and without a project, and each kind of stream of one.
MCStreams ==
    {Stream(None, None, "types"), Stream(None, None, "tags"), Stream(None, "one", "same"),
     Stream(1, None, "same"), Stream(2, None, "types"), Stream(2, None, "tags"), Stream(2, "one", "same")}
=============================================================================
