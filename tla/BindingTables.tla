--------------------------- MODULE BindingTables ---------------------------
(***************************************************************************)
(* The classes derived from Device, one per brick and bricklet.            *)
(*                                                                         *)
(* X_init is the table the constructor of class X writes:                  *)
(*   Ctor(ids with the flag ALWAYS_TRUE, ids with FALSE, ids with TRUE,    *)
(*        callbacks with ALWAYS_FALSE as <<id, bytes of callback_formats>>) *)
(* X_calls holds the methods of class X, one send_request each:            *)
(*   <<function id, bytes of the request format, bytes of the answer       *)
(*     format>>                                                            *)
(* in the order of the source; the methods of a long class are listed in   *)
(* parts.  A format counts by struct.calcsize with '<': no padding.        *)
(***************************************************************************)
EXTENDS Integers

Ctor(getters, setters, configs, callbacks) ==
  [getters |-> getters, setters |-> setters, configs |-> configs, callbacks |-> callbacks]

\* The daemon itself is a device with two functions (class BrickDaemon).
BrickDaemon_init == Ctor({1}, {}, {2}, {})
BrickDaemon_calls == {<<1, 0, 4>>, <<2, 24, 0>>}

BrickDC_init == Ctor({2, 3, 5, 7, 9, 10, 11, 14, 16, 18, 20, 240, 241, 242, 255}, {1, 4, 6, 8,
  12, 13, 17, 238, 239, 243}, {15, 19}, {<<21, 2>>, <<22, 0>>, <<23, 2>>, <<24, 2>>})
BrickDC_calls1 == {<<1, 2, 0>>, <<2, 0, 2>>, <<3, 0, 2>>, <<4, 2, 0>>, <<5, 0, 2>>,
  <<6, 2, 0>>, <<7, 0, 2>>, <<8, 0, 0>>, <<9, 0, 2>>, <<10, 0, 2>>, <<11, 0, 2>>,
  <<12, 0, 0>>, <<13, 0, 0>>, <<14, 0, 1>>, <<15, 2, 0>>}
BrickDC_calls2 == {<<16, 0, 2>>, <<17, 1, 0>>, <<18, 0, 1>>, <<19, 2, 0>>, <<20, 0, 2>>,
  <<238, 0, 0>>, <<239, 0, 0>>, <<240, 0, 1>>, <<241, 1, 44>>, <<242, 0, 2>>, <<243, 0, 0>>,
  <<255, 0, 25>>}

BrickIMU_init == Ctor({1, 2, 3, 4, 5, 6, 7, 10, 12, 14, 16, 18, 20, 22, 24, 26, 28, 30, 39,
  240, 241, 242, 255}, {8, 9, 11, 13, 15, 17, 37, 38, 238, 239, 243}, {19, 21, 23, 25, 27,
  29}, {<<31, 6>>, <<32, 6>>, <<33, 6>>, <<34, 20>>, <<35, 6>>, <<36, 16>>})
BrickIMU_calls1 == {<<1, 0, 6>>, <<2, 0, 6>>, <<3, 0, 6>>, <<4, 0, 20>>, <<5, 0, 6>>,
  <<6, 0, 16>>, <<7, 0, 2>>, <<8, 0, 0>>, <<9, 0, 0>>, <<10, 0, 1>>, <<11, 1, 0>>,
  <<12, 0, 1>>, <<13, 1, 0>>, <<14, 0, 1>>}
BrickIMU_calls2 == {<<15, 2, 0>>, <<16, 0, 2>>, <<17, 21, 0>>, <<18, 1, 20>>, <<19, 4, 0>>,
  <<20, 0, 4>>, <<21, 4, 0>>, <<22, 0, 4>>, <<23, 4, 0>>, <<24, 0, 4>>, <<25, 4, 0>>,
  <<26, 0, 4>>, <<27, 4, 0>>, <<28, 0, 4>>}
BrickIMU_calls3 == {<<29, 4, 0>>, <<30, 0, 4>>, <<37, 0, 0>>, <<38, 0, 0>>, <<39, 0, 1>>,
  <<238, 0, 0>>, <<239, 0, 0>>, <<240, 0, 1>>, <<241, 1, 44>>, <<242, 0, 2>>, <<243, 0, 0>>,
  <<255, 0, 25>>}

BrickIMUV2_init == Ctor({1, 2, 3, 4, 5, 6, 7, 8, 9, 12, 13, 15, 17, 19, 21, 23, 25, 27, 29,
  31, 240, 241, 242, 255}, {10, 11, 238, 239, 243}, {14, 16, 18, 20, 22, 24, 26, 28, 30},
  {<<32, 6>>, <<33, 6>>, <<34, 6>>, <<35, 1>>, <<36, 6>>, <<37, 6>>, <<38, 6>>, <<39, 8>>,
  <<40, 46>>})
BrickIMUV2_calls1 == {<<1, 0, 6>>, <<2, 0, 6>>, <<3, 0, 6>>, <<4, 0, 1>>, <<5, 0, 6>>,
  <<6, 0, 6>>, <<7, 0, 6>>, <<8, 0, 8>>, <<9, 0, 46>>, <<10, 0, 0>>}
BrickIMUV2_calls2 == {<<11, 0, 0>>, <<12, 0, 1>>, <<13, 0, 1>>, <<14, 4, 0>>, <<15, 0, 4>>,
  <<16, 4, 0>>, <<17, 0, 4>>, <<18, 4, 0>>, <<19, 0, 4>>, <<20, 4, 0>>, <<21, 0, 4>>,
  <<22, 4, 0>>, <<23, 0, 4>>, <<24, 4, 0>>, <<25, 0, 4>>, <<26, 4, 0>>, <<27, 0, 4>>,
  <<28, 4, 0>>, <<29, 0, 4>>, <<30, 4, 0>>, <<31, 0, 4>>}
BrickIMUV2_calls3 == {<<238, 0, 0>>, <<239, 0, 0>>, <<240, 0, 1>>, <<241, 1, 44>>,
  <<242, 0, 2>>, <<243, 0, 0>>, <<255, 0, 25>>}

BrickMaster_init == Ctor({1, 2, 4, 5, 7, 9, 11, 12, 13, 15, 17, 18, 20, 22, 23, 25, 26, 28,
  30, 31, 34, 36, 37, 39, 40, 42, 44, 46, 48, 50, 52, 54, 56, 58, 65, 67, 68, 72, 74, 76, 240,
  241, 242, 255}, {3, 6, 8, 10, 14, 16, 19, 21, 24, 27, 29, 32, 33, 35, 38, 41, 43, 66, 69,
  70, 71, 73, 75, 238, 239, 243}, {45, 47, 49, 51, 53, 55, 57}, {<<59, 2>>, <<60, 2>>,
  <<61, 2>>, <<62, 2>>, <<63, 2>>, <<64, 2>>})
BrickMaster_calls1 == {<<1, 0, 2>>, <<2, 0, 2>>, <<3, 5, 0>>, <<4, 1, 4>>, <<5, 0, 1>>,
  <<6, 1, 0>>, <<7, 0, 1>>, <<8, 1, 0>>, <<9, 0, 1>>, <<10, 2, 0>>, <<11, 1, 1>>,
  <<12, 0, 1>>, <<13, 0, 8>>, <<14, 1, 0>>, <<15, 0, 1>>}
BrickMaster_calls2 == {<<16, 1, 0>>, <<17, 0, 1>>, <<18, 0, 1>>, <<19, 1, 0>>, <<20, 0, 1>>,
  <<21, 2, 0>>, <<22, 1, 1>>, <<23, 0, 2>>, <<24, 6, 0>>, <<25, 0, 6>>, <<26, 0, 1>>,
  <<27, 47, 0>>}
BrickMaster_calls3 == {<<28, 0, 47>>, <<29, 59, 0>>, <<30, 0, 59>>, <<31, 0, 36>>,
  <<32, 0, 0>>, <<33, 35, 0>>, <<34, 2, 33>>, <<35, 1, 0>>, <<36, 0, 1>>}
BrickMaster_calls4 == {<<37, 0, 8>>, <<38, 1, 0>>, <<39, 0, 1>>, <<40, 0, 2>>, <<41, 64, 0>>,
  <<42, 0, 64>>, <<43, 16, 0>>, <<44, 0, 16>>, <<45, 4, 0>>, <<46, 0, 4>>, <<47, 4, 0>>,
  <<48, 0, 4>>, <<49, 4, 0>>}
BrickMaster_calls5 == {<<50, 0, 4>>, <<51, 5, 0>>, <<52, 0, 5>>, <<53, 5, 0>>, <<54, 0, 5>>,
  <<55, 5, 0>>, <<56, 0, 5>>, <<57, 4, 0>>, <<58, 0, 4>>, <<65, 0, 1>>}
BrickMaster_calls6 == {<<66, 15, 0>>, <<67, 0, 15>>, <<68, 0, 58>>, <<69, 32, 0>>,
  <<70, 6, 0>>, <<71, 3, 0>>, <<72, 0, 3>>, <<73, 64, 0>>, <<74, 0, 64>>}
BrickMaster_calls7 == {<<75, 64, 0>>, <<76, 0, 64>>, <<238, 0, 0>>, <<239, 0, 0>>,
  <<240, 0, 1>>, <<241, 1, 44>>, <<242, 0, 2>>, <<243, 0, 0>>, <<255, 0, 25>>}

BrickRED_init == Ctor({1, 2, 4, 5, 7, 8, 9, 10, 11, 12, 13, 14, 15, 16, 17, 18, 19, 20, 22,
  23, 26, 27, 28, 29, 33, 34, 35, 36, 37, 38, 39, 40, 41, 42, 43, 44, 46, 47, 48, 49, 50, 51,
  52, 53, 54, 55, 56, 57, 58, 59, 60, 61, 62, 63, 64, 255}, {3, 6, 21, 24, 25}, {},
  {<<30, 64>>, <<31, 4>>, <<32, 4>>, <<45, 12>>, <<65, 2>>, <<66, 2>>})
BrickRED_calls1 == {<<1, 4, 3>>, <<2, 2, 1>>, <<3, 2, 0>>, <<4, 6, 1>>, <<5, 4, 1>>,
  <<6, 4, 0>>, <<7, 64, 3>>, <<8, 6, 1>>, <<9, 2, 5>>, <<10, 64, 1>>, <<11, 6, 64>>,
  <<12, 4, 3>>, <<13, 2, 3>>, <<14, 6, 4>>, <<15, 4, 1>>, <<16, 4, 1>>}
BrickRED_calls2 == {<<17, 18, 3>>, <<18, 14, 3>>, <<19, 4, 50>>, <<20, 3, 64>>, <<21, 10, 0>>,
  <<22, 2, 1>>, <<23, 64, 2>>}
BrickRED_calls3 == {<<24, 64, 0>>, <<25, 64, 0>>, <<26, 11, 9>>, <<27, 2, 9>>, <<28, 4, 1>>,
  <<29, 2, 3>>, <<33, 4, 3>>, <<34, 4, 3>>, <<35, 4, 4>>, <<36, 2, 1>>, <<37, 16, 1>>,
  <<38, 2, 3>>, <<39, 24, 3>>, <<40, 3, 1>>}
BrickRED_calls4 == {<<41, 4, 9>>, <<42, 2, 13>>, <<43, 4, 7>>, <<44, 2, 11>>, <<46, 2, 3>>,
  <<47, 4, 3>>, <<48, 6, 1>>, <<49, 4, 3>>, <<50, 4, 3>>, <<51, 10, 1>>, <<52, 4, 9>>,
  <<53, 11, 1>>, <<54, 4, 10>>, <<55, 10, 1>>, <<56, 4, 9>>, <<57, 4, 12>>, <<58, 2, 1>>,
  <<59, 2, 1>>, <<60, 4, 11>>}
BrickRED_calls5 == {<<61, 4, 3>>, <<62, 6, 1>>, <<63, 6, 3>>, <<64, 4, 1>>, <<255, 0, 25>>}

BrickServo_init == Ctor({3, 5, 6, 8, 9, 11, 13, 15, 17, 19, 20, 21, 22, 23, 25, 31, 34, 240,
  241, 242, 255}, {1, 2, 4, 7, 10, 12, 14, 16, 18, 238, 239, 243}, {24, 29, 30, 32, 33},
  {<<26, 2>>, <<27, 3>>, <<28, 3>>})
BrickServo_calls1 == {<<1, 1, 0>>, <<2, 1, 0>>, <<3, 1, 1>>, <<4, 3, 0>>, <<5, 1, 2>>,
  <<6, 1, 2>>, <<7, 3, 0>>, <<8, 1, 2>>, <<9, 1, 2>>, <<10, 3, 0>>, <<11, 1, 2>>,
  <<12, 2, 0>>, <<13, 0, 2>>, <<14, 5, 0>>, <<15, 1, 4>>}
BrickServo_calls2 == {<<16, 5, 0>>, <<17, 1, 4>>, <<18, 3, 0>>, <<19, 1, 2>>, <<20, 1, 2>>,
  <<21, 0, 2>>, <<22, 0, 2>>, <<23, 0, 2>>, <<24, 2, 0>>, <<25, 0, 2>>, <<29, 0, 0>>,
  <<30, 0, 0>>, <<31, 0, 1>>}
BrickServo_calls3 == {<<32, 0, 0>>, <<33, 0, 0>>, <<34, 0, 1>>, <<238, 0, 0>>, <<239, 0, 0>>,
  <<240, 0, 1>>, <<241, 1, 44>>, <<242, 0, 2>>, <<243, 0, 0>>, <<255, 0, 25>>}

BrickStepper_init == Ctor({2, 3, 5, 8, 10, 12, 13, 15, 19, 20, 21, 23, 26, 28, 30, 34, 36, 37,
  39, 240, 241, 242, 255}, {1, 4, 6, 7, 9, 11, 14, 16, 17, 18, 22, 24, 25, 27, 33, 35, 238,
  239, 243}, {29, 38}, {<<31, 2>>, <<32, 4>>, <<40, 16>>, <<41, 2>>})
BrickStepper_calls1 == {<<1, 2, 0>>, <<2, 0, 2>>, <<3, 0, 2>>, <<4, 4, 0>>, <<5, 0, 4>>,
  <<6, 0, 0>>, <<7, 4, 0>>, <<8, 0, 4>>, <<9, 4, 0>>, <<10, 0, 4>>, <<11, 4, 0>>,
  <<12, 0, 4>>, <<13, 0, 4>>, <<14, 1, 0>>, <<15, 0, 1>>, <<16, 0, 0>>}
BrickStepper_calls2 == {<<17, 0, 0>>, <<18, 0, 0>>, <<19, 0, 2>>, <<20, 0, 2>>, <<21, 0, 2>>,
  <<22, 2, 0>>, <<23, 0, 2>>, <<24, 0, 0>>, <<25, 0, 0>>, <<26, 0, 1>>, <<27, 2, 0>>,
  <<28, 0, 2>>, <<29, 2, 0>>, <<30, 0, 2>>}
BrickStepper_calls3 == {<<33, 1, 0>>, <<34, 0, 1>>, <<35, 4, 0>>, <<36, 0, 4>>, <<37, 0, 16>>,
  <<38, 4, 0>>, <<39, 0, 4>>, <<238, 0, 0>>, <<239, 0, 0>>, <<240, 0, 1>>, <<241, 1, 44>>,
  <<242, 0, 2>>, <<243, 0, 0>>, <<255, 0, 25>>}

BrickletAccelerometer_init == Ctor({1, 3, 5, 7, 8, 10, 13, 255}, {9, 11, 12}, {2, 4, 6},
  {<<14, 6>>, <<15, 6>>})
BrickletAccelerometer_calls == {<<1, 0, 6>>, <<2, 4, 0>>, <<3, 0, 4>>, <<4, 13, 0>>,
  <<5, 0, 13>>, <<6, 4, 0>>, <<7, 0, 4>>, <<8, 0, 2>>, <<9, 3, 0>>, <<10, 0, 3>>,
  <<11, 0, 0>>, <<12, 0, 0>>, <<13, 0, 1>>, <<255, 0, 25>>}

BrickletAmbientLight_init == Ctor({1, 2, 4, 6, 8, 10, 12, 255}, {}, {3, 5, 7, 9, 11},
  {<<13, 2>>, <<14, 2>>, <<15, 2>>, <<16, 2>>})
BrickletAmbientLight_calls == {<<1, 0, 2>>, <<2, 0, 2>>, <<3, 4, 0>>, <<4, 0, 4>>,
  <<5, 4, 0>>, <<6, 0, 4>>, <<7, 5, 0>>, <<8, 0, 5>>, <<9, 5, 0>>, <<10, 0, 5>>, <<11, 4, 0>>,
  <<12, 0, 4>>, <<255, 0, 25>>}

BrickletAmbientLightV2_init == Ctor({1, 3, 5, 7, 9, 255}, {8}, {2, 4, 6}, {<<10, 4>>,
  <<11, 4>>})
BrickletAmbientLightV2_calls == {<<1, 0, 4>>, <<2, 4, 0>>, <<3, 0, 4>>, <<4, 9, 0>>,
  <<5, 0, 9>>, <<6, 4, 0>>, <<7, 0, 4>>, <<8, 2, 0>>, <<9, 0, 2>>, <<255, 0, 25>>}

BrickletAnalogIn_init == Ctor({1, 2, 4, 6, 8, 10, 12, 18, 20, 255}, {17, 19}, {3, 5, 7, 9,
  11}, {<<13, 2>>, <<14, 2>>, <<15, 2>>, <<16, 2>>})
BrickletAnalogIn_calls == {<<1, 0, 2>>, <<2, 0, 2>>, <<3, 4, 0>>, <<4, 0, 4>>, <<5, 4, 0>>,
  <<6, 0, 4>>, <<7, 5, 0>>, <<8, 0, 5>>, <<9, 5, 0>>, <<10, 0, 5>>, <<11, 4, 0>>,
  <<12, 0, 4>>, <<17, 1, 0>>, <<18, 0, 1>>, <<19, 1, 0>>, <<20, 0, 1>>, <<255, 0, 25>>}

BrickletAnalogInV2_init == Ctor({1, 2, 4, 6, 8, 10, 12, 14, 255}, {13}, {3, 5, 7, 9, 11},
  {<<15, 2>>, <<16, 2>>, <<17, 2>>, <<18, 2>>})
BrickletAnalogInV2_calls == {<<1, 0, 2>>, <<2, 0, 2>>, <<3, 4, 0>>, <<4, 0, 4>>, <<5, 4, 0>>,
  <<6, 0, 4>>, <<7, 5, 0>>, <<8, 0, 5>>, <<9, 5, 0>>, <<10, 0, 5>>, <<11, 4, 0>>,
  <<12, 0, 4>>, <<13, 1, 0>>, <<14, 0, 1>>, <<255, 0, 25>>}

BrickletAnalogOut_init == Ctor({2, 4, 255}, {1, 3}, {}, {})
BrickletAnalogOut_calls == {<<1, 2, 0>>, <<2, 0, 2>>, <<3, 1, 0>>, <<4, 0, 1>>,
  <<255, 0, 25>>}

BrickletAnalogOutV2_init == Ctor({2, 3, 255}, {1}, {}, {})
BrickletAnalogOutV2_calls == {<<1, 2, 0>>, <<2, 0, 2>>, <<3, 0, 2>>, <<255, 0, 25>>}

BrickletBarometer_init == Ctor({1, 2, 4, 6, 8, 10, 12, 14, 19, 21, 255}, {13, 20}, {3, 5, 7,
  9, 11}, {<<15, 4>>, <<16, 4>>, <<17, 4>>, <<18, 4>>})
BrickletBarometer_calls == {<<1, 0, 4>>, <<2, 0, 4>>, <<3, 4, 0>>, <<4, 0, 4>>, <<5, 4, 0>>,
  <<6, 0, 4>>, <<7, 9, 0>>, <<8, 0, 9>>, <<9, 9, 0>>, <<10, 0, 9>>, <<11, 4, 0>>,
  <<12, 0, 4>>, <<13, 4, 0>>, <<14, 0, 2>>, <<19, 0, 4>>, <<20, 3, 0>>, <<21, 0, 3>>,
  <<255, 0, 25>>}

BrickletColor_init == Ctor({1, 3, 5, 7, 12, 14, 15, 16, 18, 20, 255}, {10, 11, 13}, {2, 4, 6,
  17, 19}, {<<8, 8>>, <<9, 8>>, <<21, 4>>, <<22, 2>>})
BrickletColor_calls == {<<1, 0, 8>>, <<2, 4, 0>>, <<3, 0, 4>>, <<4, 17, 0>>, <<5, 0, 17>>,
  <<6, 4, 0>>, <<7, 0, 4>>, <<10, 0, 0>>, <<11, 0, 0>>, <<12, 0, 1>>, <<13, 2, 0>>,
  <<14, 0, 2>>, <<15, 0, 4>>, <<16, 0, 2>>, <<17, 4, 0>>, <<18, 0, 4>>, <<19, 4, 0>>,
  <<20, 0, 4>>, <<255, 0, 25>>}

BrickletCurrent12_init == Ctor({1, 3, 4, 6, 8, 10, 12, 14, 255}, {2}, {5, 7, 9, 11, 13},
  {<<15, 2>>, <<16, 2>>, <<17, 2>>, <<18, 2>>, <<19, 0>>})
BrickletCurrent12_calls == {<<1, 0, 2>>, <<2, 0, 0>>, <<3, 0, 1>>, <<4, 0, 2>>, <<5, 4, 0>>,
  <<6, 0, 4>>, <<7, 4, 0>>, <<8, 0, 4>>, <<9, 5, 0>>, <<10, 0, 5>>, <<11, 5, 0>>,
  <<12, 0, 5>>, <<13, 4, 0>>, <<14, 0, 4>>, <<255, 0, 25>>}

BrickletCurrent25_init == Ctor({1, 3, 4, 6, 8, 10, 12, 14, 255}, {2}, {5, 7, 9, 11, 13},
  {<<15, 2>>, <<16, 2>>, <<17, 2>>, <<18, 2>>, <<19, 0>>})
BrickletCurrent25_calls == {<<1, 0, 2>>, <<2, 0, 0>>, <<3, 0, 1>>, <<4, 0, 2>>, <<5, 4, 0>>,
  <<6, 0, 4>>, <<7, 4, 0>>, <<8, 0, 4>>, <<9, 5, 0>>, <<10, 0, 5>>, <<11, 5, 0>>,
  <<12, 0, 5>>, <<13, 4, 0>>, <<14, 0, 4>>, <<255, 0, 25>>}

BrickletDistanceIR_init == Ctor({1, 2, 4, 6, 8, 10, 12, 14, 255}, {3}, {5, 7, 9, 11, 13},
  {<<15, 2>>, <<16, 2>>, <<17, 2>>, <<18, 2>>})
BrickletDistanceIR_calls == {<<1, 0, 2>>, <<2, 0, 2>>, <<3, 3, 0>>, <<4, 1, 2>>, <<5, 4, 0>>,
  <<6, 0, 4>>, <<7, 4, 0>>, <<8, 0, 4>>, <<9, 5, 0>>, <<10, 0, 5>>, <<11, 5, 0>>,
  <<12, 0, 5>>, <<13, 4, 0>>, <<14, 0, 4>>, <<255, 0, 25>>}

BrickletDistanceUS_init == Ctor({1, 3, 5, 7, 11, 255}, {10}, {2, 4, 6}, {<<8, 2>>, <<9, 2>>})
BrickletDistanceUS_calls == {<<1, 0, 2>>, <<2, 4, 0>>, <<3, 0, 4>>, <<4, 5, 0>>, <<5, 0, 5>>,
  <<6, 4, 0>>, <<7, 0, 4>>, <<10, 1, 0>>, <<11, 0, 1>>, <<255, 0, 25>>}

BrickletDualButton_init == Ctor({2, 3, 255}, {1, 5}, {}, {<<4, 4>>})
BrickletDualButton_calls == {<<1, 2, 0>>, <<2, 0, 2>>, <<3, 0, 2>>, <<5, 2, 0>>,
  <<255, 0, 25>>}

BrickletDualRelay_init == Ctor({2, 4, 255}, {1, 3, 6}, {}, {<<5, 2>>})
BrickletDualRelay_calls == {<<1, 2, 0>>, <<2, 0, 2>>, <<3, 6, 0>>, <<4, 1, 9>>, <<6, 2, 0>>,
  <<255, 0, 25>>}

BrickletDustDetector_init == Ctor({1, 3, 5, 7, 11, 255}, {10}, {2, 4, 6}, {<<8, 2>>,
  <<9, 2>>})
BrickletDustDetector_calls == {<<1, 0, 2>>, <<2, 4, 0>>, <<3, 0, 4>>, <<4, 5, 0>>,
  <<5, 0, 5>>, <<6, 4, 0>>, <<7, 0, 4>>, <<10, 1, 0>>, <<11, 0, 1>>, <<255, 0, 25>>}

BrickletGPS_init == Ctor({1, 2, 3, 4, 5, 8, 10, 12, 14, 16, 255}, {6}, {7, 9, 11, 13, 15},
  {<<17, 18>>, <<18, 3>>, <<19, 8>>, <<20, 8>>, <<21, 8>>})
BrickletGPS_calls == {<<1, 0, 18>>, <<2, 0, 3>>, <<3, 0, 8>>, <<4, 0, 8>>, <<5, 0, 8>>,
  <<6, 1, 0>>, <<7, 4, 0>>, <<8, 0, 4>>, <<9, 4, 0>>, <<10, 0, 4>>, <<11, 4, 0>>,
  <<12, 0, 4>>, <<13, 4, 0>>, <<14, 0, 4>>, <<15, 4, 0>>, <<16, 0, 4>>, <<255, 0, 25>>}

BrickletHallEffect_init == Ctor({1, 2, 4, 6, 8, 9, 255}, {3}, {5, 7}, {<<10, 5>>})
BrickletHallEffect_calls == {<<1, 0, 1>>, <<2, 1, 4>>, <<3, 2, 0>>, <<4, 0, 2>>, <<5, 4, 0>>,
  <<6, 0, 4>>, <<7, 4, 0>>, <<8, 0, 4>>, <<9, 0, 5>>, <<255, 0, 25>>}

BrickletHumidity_init == Ctor({1, 2, 4, 6, 8, 10, 12, 255}, {}, {3, 5, 7, 9, 11}, {<<13, 2>>,
  <<14, 2>>, <<15, 2>>, <<16, 2>>})
BrickletHumidity_calls == {<<1, 0, 2>>, <<2, 0, 2>>, <<3, 4, 0>>, <<4, 0, 4>>, <<5, 4, 0>>,
  <<6, 0, 4>>, <<7, 5, 0>>, <<8, 0, 5>>, <<9, 5, 0>>, <<10, 0, 5>>, <<11, 4, 0>>,
  <<12, 0, 4>>, <<255, 0, 25>>}

BrickletIndustrialAnalogOut_init == Ctor({3, 5, 7, 9, 255}, {1, 2, 4, 6, 8}, {}, {})
BrickletIndustrialAnalogOut_calls == {<<1, 0, 0>>, <<2, 0, 0>>, <<3, 0, 1>>, <<4, 2, 0>>,
  <<5, 0, 2>>, <<6, 2, 0>>, <<7, 0, 2>>, <<8, 2, 0>>, <<9, 0, 2>>, <<255, 0, 25>>}

BrickletIndustrialDigitalIn4_init == Ctor({1, 3, 4, 6, 8, 10, 12, 255}, {2, 11}, {5, 7},
  {<<9, 4>>})
BrickletIndustrialDigitalIn4_calls == {<<1, 0, 2>>, <<2, 4, 0>>, <<3, 0, 4>>, <<4, 0, 1>>,
  <<5, 4, 0>>, <<6, 0, 4>>, <<7, 2, 0>>, <<8, 0, 2>>, <<10, 2, 4>>, <<11, 4, 0>>,
  <<12, 1, 2>>, <<255, 0, 25>>}

BrickletIndustrialDigitalOut4_init == Ctor({2, 4, 6, 7, 255}, {1, 3, 5, 9}, {}, {<<8, 4>>})
BrickletIndustrialDigitalOut4_calls == {<<1, 2, 0>>, <<2, 0, 2>>, <<3, 8, 0>>, <<4, 1, 10>>,
  <<5, 4, 0>>, <<6, 0, 4>>, <<7, 0, 1>>, <<9, 4, 0>>, <<255, 0, 25>>}

BrickletIndustrialDual020mA_init == Ctor({1, 3, 5, 7, 9, 255}, {8}, {2, 4, 6}, {<<10, 5>>,
  <<11, 5>>})
BrickletIndustrialDual020mA_calls == {<<1, 1, 4>>, <<2, 5, 0>>, <<3, 1, 4>>, <<4, 10, 0>>,
  <<5, 1, 9>>, <<6, 4, 0>>, <<7, 0, 4>>, <<8, 1, 0>>, <<9, 0, 1>>, <<255, 0, 25>>}

BrickletIndustrialDualAnalogIn_init == Ctor({1, 3, 5, 7, 9, 11, 12, 255}, {8, 10}, {2, 4, 6},
  {<<13, 5>>, <<14, 5>>})
BrickletIndustrialDualAnalogIn_calls == {<<1, 1, 4>>, <<2, 5, 0>>, <<3, 1, 4>>, <<4, 10, 0>>,
  <<5, 1, 9>>, <<6, 4, 0>>, <<7, 0, 4>>, <<8, 1, 0>>, <<9, 0, 1>>, <<10, 16, 0>>,
  <<11, 0, 16>>, <<12, 0, 8>>, <<255, 0, 25>>}

BrickletIndustrialQuadRelay_init == Ctor({2, 4, 6, 7, 255}, {1, 3, 5, 9}, {}, {<<8, 4>>})
BrickletIndustrialQuadRelay_calls == {<<1, 2, 0>>, <<2, 0, 2>>, <<3, 8, 0>>, <<4, 1, 10>>,
  <<5, 4, 0>>, <<6, 0, 4>>, <<7, 0, 1>>, <<9, 4, 0>>, <<255, 0, 25>>}

BrickletIO16_init == Ctor({2, 4, 6, 8, 11, 14, 16, 255}, {1, 3, 10, 13, 15}, {5, 7},
  {<<9, 3>>, <<12, 3>>})
BrickletIO16_calls == {<<1, 2, 0>>, <<2, 1, 1>>, <<3, 4, 0>>, <<4, 1, 2>>, <<5, 4, 0>>,
  <<6, 0, 4>>, <<7, 2, 0>>, <<8, 1, 1>>, <<10, 7, 0>>, <<11, 2, 9>>, <<13, 3, 0>>,
  <<14, 2, 4>>, <<15, 3, 0>>, <<16, 1, 2>>, <<255, 0, 25>>}

BrickletIO4_init == Ctor({2, 4, 6, 8, 11, 14, 16, 255}, {1, 3, 10, 13, 15}, {5, 7}, {<<9, 2>>,
  <<12, 2>>})
BrickletIO4_calls == {<<1, 1, 0>>, <<2, 0, 1>>, <<3, 3, 0>>, <<4, 0, 2>>, <<5, 4, 0>>,
  <<6, 0, 4>>, <<7, 1, 0>>, <<8, 0, 1>>, <<10, 6, 0>>, <<11, 1, 9>>, <<13, 2, 0>>,
  <<14, 2, 4>>, <<15, 3, 0>>, <<16, 1, 2>>, <<255, 0, 25>>}

BrickletJoystick_init == Ctor({1, 2, 3, 6, 8, 10, 12, 14, 255}, {4}, {5, 7, 9, 11, 13},
  {<<15, 4>>, <<16, 4>>, <<17, 4>>, <<18, 4>>, <<19, 0>>, <<20, 0>>})
BrickletJoystick_calls == {<<1, 0, 4>>, <<2, 0, 1>>, <<3, 0, 4>>, <<4, 0, 0>>, <<5, 4, 0>>,
  <<6, 0, 4>>, <<7, 4, 0>>, <<8, 0, 4>>, <<9, 9, 0>>, <<10, 0, 9>>, <<11, 9, 0>>,
  <<12, 0, 9>>, <<13, 4, 0>>, <<14, 0, 4>>, <<255, 0, 25>>}

BrickletLaserRangeFinder_init == Ctor({1, 2, 4, 6, 8, 10, 12, 14, 16, 19, 255}, {13, 15, 17,
  18}, {3, 5, 7, 9, 11}, {<<20, 2>>, <<21, 2>>, <<22, 2>>, <<23, 2>>})
BrickletLaserRangeFinder_calls == {<<1, 0, 2>>, <<2, 0, 2>>, <<3, 4, 0>>, <<4, 0, 4>>,
  <<5, 4, 0>>, <<6, 0, 4>>, <<7, 5, 0>>, <<8, 0, 5>>, <<9, 5, 0>>, <<10, 0, 5>>, <<11, 4, 0>>,
  <<12, 0, 4>>, <<13, 2, 0>>, <<14, 0, 2>>, <<15, 1, 0>>, <<16, 0, 1>>, <<17, 0, 0>>,
  <<18, 0, 0>>, <<19, 0, 1>>, <<255, 0, 25>>}

BrickletLCD16x2_init == Ctor({5, 7, 8, 12, 255}, {1, 2, 3, 4, 6, 11}, {}, {<<9, 1>>,
  <<10, 1>>})
BrickletLCD16x2_calls == {<<1, 18, 0>>, <<2, 0, 0>>, <<3, 0, 0>>, <<4, 0, 0>>, <<5, 0, 1>>,
  <<6, 2, 0>>, <<7, 0, 2>>, <<8, 1, 1>>, <<11, 9, 0>>, <<12, 1, 8>>, <<255, 0, 25>>}

BrickletLCD20x4_init == Ctor({5, 7, 8, 12, 14, 16, 255}, {1, 2, 3, 4, 6, 11, 13, 15}, {},
  {<<9, 1>>, <<10, 1>>})
BrickletLCD20x4_calls == {<<1, 22, 0>>, <<2, 0, 0>>, <<3, 0, 0>>, <<4, 0, 0>>, <<5, 0, 1>>,
  <<6, 2, 0>>, <<7, 0, 2>>, <<8, 1, 1>>, <<11, 9, 0>>, <<12, 1, 8>>, <<13, 21, 0>>,
  <<14, 1, 20>>, <<15, 4, 0>>, <<16, 0, 4>>, <<255, 0, 25>>}

BrickletLEDStrip_init == Ctor({2, 4, 5, 8, 10, 255}, {1, 3, 7, 9}, {}, {<<6, 2>>})
BrickletLEDStrip_calls == {<<1, 51, 0>>, <<2, 3, 48>>, <<3, 2, 0>>, <<4, 0, 2>>, <<5, 0, 2>>,
  <<7, 4, 0>>, <<8, 0, 4>>, <<9, 2, 0>>, <<10, 0, 2>>, <<255, 0, 25>>}

BrickletLine_init == Ctor({1, 3, 5, 7, 255}, {}, {2, 4, 6}, {<<8, 2>>, <<9, 2>>})
BrickletLine_calls == {<<1, 0, 2>>, <<2, 4, 0>>, <<3, 0, 4>>, <<4, 5, 0>>, <<5, 0, 5>>,
  <<6, 4, 0>>, <<7, 0, 4>>, <<255, 0, 25>>}

BrickletLinearPoti_init == Ctor({1, 2, 4, 6, 8, 10, 12, 255}, {}, {3, 5, 7, 9, 11},
  {<<13, 2>>, <<14, 2>>, <<15, 2>>, <<16, 2>>})
BrickletLinearPoti_calls == {<<1, 0, 2>>, <<2, 0, 2>>, <<3, 4, 0>>, <<4, 0, 4>>, <<5, 4, 0>>,
  <<6, 0, 4>>, <<7, 5, 0>>, <<8, 0, 5>>, <<9, 5, 0>>, <<10, 0, 5>>, <<11, 4, 0>>,
  <<12, 0, 4>>, <<255, 0, 25>>}

BrickletLoadCell_init == Ctor({1, 3, 5, 7, 9, 12, 16, 255}, {8, 10, 11, 13, 14, 15}, {2, 4,
  6}, {<<17, 4>>, <<18, 4>>})
BrickletLoadCell_calls == {<<1, 0, 4>>, <<2, 4, 0>>, <<3, 0, 4>>, <<4, 9, 0>>, <<5, 0, 9>>,
  <<6, 4, 0>>, <<7, 0, 4>>, <<8, 1, 0>>, <<9, 0, 1>>, <<10, 0, 0>>, <<11, 0, 0>>,
  <<12, 0, 1>>, <<13, 4, 0>>, <<14, 0, 0>>, <<15, 2, 0>>, <<16, 0, 2>>, <<255, 0, 25>>}

BrickletMoisture_init == Ctor({1, 3, 5, 7, 11, 255}, {10}, {2, 4, 6}, {<<8, 2>>, <<9, 2>>})
BrickletMoisture_calls == {<<1, 0, 2>>, <<2, 4, 0>>, <<3, 0, 4>>, <<4, 5, 0>>, <<5, 0, 5>>,
  <<6, 4, 0>>, <<7, 0, 4>>, <<10, 1, 0>>, <<11, 0, 1>>, <<255, 0, 25>>}

BrickletMotionDetector_init == Ctor({1, 255}, {}, {}, {<<2, 0>>, <<3, 0>>})
BrickletMotionDetector_calls == {<<1, 0, 1>>, <<255, 0, 25>>}

BrickletMultiTouch_init == Ctor({1, 4, 7, 255}, {2, 3, 6}, {}, {<<5, 2>>})
BrickletMultiTouch_calls == {<<1, 0, 2>>, <<2, 0, 0>>, <<3, 2, 0>>, <<4, 0, 2>>, <<6, 1, 0>>,
  <<7, 0, 1>>, <<255, 0, 25>>}

BrickletNFCRFID_init == Ctor({2, 3, 7, 255}, {1, 4, 5, 6}, {}, {<<8, 2>>})
BrickletNFCRFID_calls == {<<1, 1, 0>>, <<2, 0, 9>>, <<3, 0, 2>>, <<4, 9, 0>>, <<5, 18, 0>>,
  <<6, 2, 0>>, <<7, 0, 16>>, <<255, 0, 25>>}

BrickletPiezoBuzzer_init == Ctor({255}, {1, 2}, {}, {<<3, 0>>, <<4, 0>>})
BrickletPiezoBuzzer_calls == {<<1, 4, 0>>, <<2, 60, 0>>, <<255, 0, 25>>}

BrickletPiezoSpeaker_init == Ctor({3, 255}, {1, 2}, {}, {<<4, 0>>, <<5, 0>>})
BrickletPiezoSpeaker_calls == {<<1, 6, 0>>, <<2, 62, 0>>, <<3, 0, 1>>, <<255, 0, 25>>}

BrickletPTC_init == Ctor({1, 2, 4, 6, 8, 10, 12, 18, 19, 21, 255}, {17, 20}, {3, 5, 7, 9, 11},
  {<<13, 4>>, <<14, 4>>, <<15, 2>>, <<16, 2>>})
BrickletPTC_calls == {<<1, 0, 4>>, <<2, 0, 2>>, <<3, 4, 0>>, <<4, 0, 4>>, <<5, 4, 0>>,
  <<6, 0, 4>>, <<7, 9, 0>>, <<8, 0, 9>>, <<9, 5, 0>>, <<10, 0, 5>>, <<11, 4, 0>>,
  <<12, 0, 4>>, <<17, 1, 0>>, <<18, 0, 1>>, <<19, 0, 1>>, <<20, 1, 0>>, <<21, 0, 1>>,
  <<255, 0, 25>>}

BrickletRemoteSwitch_init == Ctor({2, 5, 255}, {1, 4, 6, 7, 8, 9}, {}, {<<3, 0>>})
BrickletRemoteSwitch_calls == {<<1, 3, 0>>, <<2, 0, 1>>, <<4, 1, 0>>, <<5, 0, 1>>,
  <<6, 3, 0>>, <<7, 6, 0>>, <<8, 6, 0>>, <<9, 3, 0>>, <<255, 0, 25>>}

BrickletRotaryEncoder_init == Ctor({1, 3, 5, 7, 10, 255}, {}, {2, 4, 6}, {<<8, 4>>, <<9, 4>>,
  <<11, 0>>, <<12, 0>>})
BrickletRotaryEncoder_calls == {<<1, 1, 4>>, <<2, 4, 0>>, <<3, 0, 4>>, <<4, 9, 0>>,
  <<5, 0, 9>>, <<6, 4, 0>>, <<7, 0, 4>>, <<10, 0, 1>>, <<255, 0, 25>>}

BrickletRotaryPoti_init == Ctor({1, 2, 4, 6, 8, 10, 12, 255}, {}, {3, 5, 7, 9, 11},
  {<<13, 2>>, <<14, 2>>, <<15, 2>>, <<16, 2>>})
BrickletRotaryPoti_calls == {<<1, 0, 2>>, <<2, 0, 2>>, <<3, 4, 0>>, <<4, 0, 4>>, <<5, 4, 0>>,
  <<6, 0, 4>>, <<7, 5, 0>>, <<8, 0, 5>>, <<9, 5, 0>>, <<10, 0, 5>>, <<11, 4, 0>>,
  <<12, 0, 4>>, <<255, 0, 25>>}

BrickletRS232_init == Ctor({1, 2, 5, 7, 255}, {6}, {3, 4}, {<<8, 61>>})
BrickletRS232_calls == {<<1, 61, 1>>, <<2, 0, 61>>, <<3, 0, 0>>, <<4, 0, 0>>, <<5, 0, 1>>,
  <<6, 6, 0>>, <<7, 0, 6>>, <<255, 0, 25>>}

BrickletSegmentDisplay4x7_init == Ctor({2, 4, 255}, {1, 3}, {}, {<<5, 0>>})
BrickletSegmentDisplay4x7_calls == {<<1, 6, 0>>, <<2, 0, 6>>, <<3, 10, 0>>, <<4, 0, 2>>,
  <<255, 0, 25>>}

BrickletSolidStateRelay_init == Ctor({2, 4, 255}, {1, 3}, {}, {<<5, 1>>})
BrickletSolidStateRelay_calls == {<<1, 1, 0>>, <<2, 0, 1>>, <<3, 5, 0>>, <<4, 0, 9>>,
  <<255, 0, 25>>}

BrickletSoundIntensity_init == Ctor({1, 3, 5, 7, 255}, {}, {2, 4, 6}, {<<8, 2>>, <<9, 2>>})
BrickletSoundIntensity_calls == {<<1, 0, 2>>, <<2, 4, 0>>, <<3, 0, 4>>, <<4, 5, 0>>,
  <<5, 0, 5>>, <<6, 4, 0>>, <<7, 0, 4>>, <<255, 0, 25>>}

BrickletTemperature_init == Ctor({1, 3, 5, 7, 11, 255}, {10}, {2, 4, 6}, {<<8, 2>>, <<9, 2>>})
BrickletTemperature_calls == {<<1, 0, 2>>, <<2, 4, 0>>, <<3, 0, 4>>, <<4, 5, 0>>, <<5, 0, 5>>,
  <<6, 4, 0>>, <<7, 0, 4>>, <<10, 1, 0>>, <<11, 0, 1>>, <<255, 0, 25>>}

BrickletTemperatureIR_init == Ctor({1, 2, 4, 6, 8, 10, 12, 14, 255}, {3}, {5, 7, 9, 11, 13},
  {<<15, 2>>, <<16, 2>>, <<17, 2>>, <<18, 2>>})
BrickletTemperatureIR_calls == {<<1, 0, 2>>, <<2, 0, 2>>, <<3, 2, 0>>, <<4, 0, 2>>,
  <<5, 4, 0>>, <<6, 0, 4>>, <<7, 4, 0>>, <<8, 0, 4>>, <<9, 5, 0>>, <<10, 0, 5>>, <<11, 5, 0>>,
  <<12, 0, 5>>, <<13, 4, 0>>, <<14, 0, 4>>, <<255, 0, 25>>}

BrickletTilt_init == Ctor({1, 4, 255}, {}, {2, 3}, {<<5, 1>>})
BrickletTilt_calls == {<<1, 0, 1>>, <<2, 0, 0>>, <<3, 0, 0>>, <<4, 0, 1>>, <<255, 0, 25>>}

BrickletVoltage_init == Ctor({1, 2, 4, 6, 8, 10, 12, 255}, {}, {3, 5, 7, 9, 11}, {<<13, 2>>,
  <<14, 2>>, <<15, 2>>, <<16, 2>>})
BrickletVoltage_calls == {<<1, 0, 2>>, <<2, 0, 2>>, <<3, 4, 0>>, <<4, 0, 4>>, <<5, 4, 0>>,
  <<6, 0, 4>>, <<7, 5, 0>>, <<8, 0, 5>>, <<9, 5, 0>>, <<10, 0, 5>>, <<11, 4, 0>>,
  <<12, 0, 4>>, <<255, 0, 25>>}

BrickletVoltageCurrent_init == Ctor({1, 2, 3, 5, 7, 9, 11, 13, 15, 17, 19, 21, 255}, {4, 6},
  {8, 10, 12, 14, 16, 18, 20}, {<<22, 4>>, <<23, 4>>, <<24, 4>>, <<25, 4>>, <<26, 4>>,
  <<27, 4>>})
BrickletVoltageCurrent_calls1 == {<<1, 0, 4>>, <<2, 0, 4>>, <<3, 0, 4>>, <<4, 3, 0>>,
  <<5, 0, 3>>, <<6, 4, 0>>, <<7, 0, 4>>, <<8, 4, 0>>, <<9, 0, 4>>, <<10, 4, 0>>, <<11, 0, 4>>,
  <<12, 4, 0>>}
BrickletVoltageCurrent_calls2 == {<<13, 0, 4>>, <<14, 9, 0>>, <<15, 0, 9>>, <<16, 9, 0>>,
  <<17, 0, 9>>, <<18, 9, 0>>, <<19, 0, 9>>, <<20, 4, 0>>, <<21, 0, 4>>, <<255, 0, 25>>}

---------------------------------------------------------------------------
AllBindings == {
  [name |-> "BrickDaemon", init |-> BrickDaemon_init, calls |-> BrickDaemon_calls],
  [name |-> "BrickDC", init |-> BrickDC_init, calls |-> BrickDC_calls1 \cup BrickDC_calls2],
  [name |-> "BrickIMU", init |-> BrickIMU_init, calls |-> 
     BrickIMU_calls1 \cup BrickIMU_calls2 \cup BrickIMU_calls3],
  [name |-> "BrickIMUV2", init |-> BrickIMUV2_init, calls |-> 
     BrickIMUV2_calls1 \cup BrickIMUV2_calls2 \cup BrickIMUV2_calls3],
  [name |-> "BrickMaster", init |-> BrickMaster_init, calls |-> 
     BrickMaster_calls1 \cup BrickMaster_calls2 \cup BrickMaster_calls3 \cup
     BrickMaster_calls4 \cup BrickMaster_calls5 \cup BrickMaster_calls6 \cup
     BrickMaster_calls7],
  [name |-> "BrickRED", init |-> BrickRED_init, calls |-> 
     BrickRED_calls1 \cup BrickRED_calls2 \cup BrickRED_calls3 \cup BrickRED_calls4 \cup
     BrickRED_calls5],
  [name |-> "BrickServo", init |-> BrickServo_init, calls |-> 
     BrickServo_calls1 \cup BrickServo_calls2 \cup BrickServo_calls3],
  [name |-> "BrickStepper", init |-> BrickStepper_init, calls |-> 
     BrickStepper_calls1 \cup BrickStepper_calls2 \cup BrickStepper_calls3],
  [name |-> "BrickletAccelerometer", init |-> BrickletAccelerometer_init, calls |-> 
     BrickletAccelerometer_calls],
  [name |-> "BrickletAmbientLight", init |-> BrickletAmbientLight_init, calls |-> 
     BrickletAmbientLight_calls],
  [name |-> "BrickletAmbientLightV2", init |-> BrickletAmbientLightV2_init, calls |-> 
     BrickletAmbientLightV2_calls],
  [name |-> "BrickletAnalogIn", init |-> BrickletAnalogIn_init, calls |-> 
     BrickletAnalogIn_calls],
  [name |-> "BrickletAnalogInV2", init |-> BrickletAnalogInV2_init, calls |-> 
     BrickletAnalogInV2_calls],
  [name |-> "BrickletAnalogOut", init |-> BrickletAnalogOut_init, calls |-> 
     BrickletAnalogOut_calls],
  [name |-> "BrickletAnalogOutV2", init |-> BrickletAnalogOutV2_init, calls |-> 
     BrickletAnalogOutV2_calls],
  [name |-> "BrickletBarometer", init |-> BrickletBarometer_init, calls |-> 
     BrickletBarometer_calls],
  [name |-> "BrickletColor", init |-> BrickletColor_init, calls |-> BrickletColor_calls],
  [name |-> "BrickletCurrent12", init |-> BrickletCurrent12_init, calls |-> 
     BrickletCurrent12_calls],
  [name |-> "BrickletCurrent25", init |-> BrickletCurrent25_init, calls |-> 
     BrickletCurrent25_calls],
  [name |-> "BrickletDistanceIR", init |-> BrickletDistanceIR_init, calls |-> 
     BrickletDistanceIR_calls],
  [name |-> "BrickletDistanceUS", init |-> BrickletDistanceUS_init, calls |-> 
     BrickletDistanceUS_calls],
  [name |-> "BrickletDualButton", init |-> BrickletDualButton_init, calls |-> 
     BrickletDualButton_calls],
  [name |-> "BrickletDualRelay", init |-> BrickletDualRelay_init, calls |-> 
     BrickletDualRelay_calls],
  [name |-> "BrickletDustDetector", init |-> BrickletDustDetector_init, calls |-> 
     BrickletDustDetector_calls],
  [name |-> "BrickletGPS", init |-> BrickletGPS_init, calls |-> BrickletGPS_calls],
  [name |-> "BrickletHallEffect", init |-> BrickletHallEffect_init, calls |-> 
     BrickletHallEffect_calls],
  [name |-> "BrickletHumidity", init |-> BrickletHumidity_init, calls |-> 
     BrickletHumidity_calls],
  [name |-> "BrickletIndustrialAnalogOut", init |-> BrickletIndustrialAnalogOut_init, calls |-> 
     BrickletIndustrialAnalogOut_calls],
  [name |-> "BrickletIndustrialDigitalIn4", init |-> BrickletIndustrialDigitalIn4_init, calls |-> 
     BrickletIndustrialDigitalIn4_calls],
  [name |-> "BrickletIndustrialDigitalOut4", init |-> BrickletIndustrialDigitalOut4_init, calls |-> 
     BrickletIndustrialDigitalOut4_calls],
  [name |-> "BrickletIndustrialDual020mA", init |-> BrickletIndustrialDual020mA_init, calls |-> 
     BrickletIndustrialDual020mA_calls],
  [name |-> "BrickletIndustrialDualAnalogIn", init |-> BrickletIndustrialDualAnalogIn_init, calls |-> 
     BrickletIndustrialDualAnalogIn_calls],
  [name |-> "BrickletIndustrialQuadRelay", init |-> BrickletIndustrialQuadRelay_init, calls |-> 
     BrickletIndustrialQuadRelay_calls],
  [name |-> "BrickletIO16", init |-> BrickletIO16_init, calls |-> BrickletIO16_calls],
  [name |-> "BrickletIO4", init |-> BrickletIO4_init, calls |-> BrickletIO4_calls],
  [name |-> "BrickletJoystick", init |-> BrickletJoystick_init, calls |-> 
     BrickletJoystick_calls],
  [name |-> "BrickletLaserRangeFinder", init |-> BrickletLaserRangeFinder_init, calls |-> 
     BrickletLaserRangeFinder_calls],
  [name |-> "BrickletLCD16x2", init |-> BrickletLCD16x2_init, calls |-> 
     BrickletLCD16x2_calls],
  [name |-> "BrickletLCD20x4", init |-> BrickletLCD20x4_init, calls |-> 
     BrickletLCD20x4_calls],
  [name |-> "BrickletLEDStrip", init |-> BrickletLEDStrip_init, calls |-> 
     BrickletLEDStrip_calls],
  [name |-> "BrickletLine", init |-> BrickletLine_init, calls |-> BrickletLine_calls],
  [name |-> "BrickletLinearPoti", init |-> BrickletLinearPoti_init, calls |-> 
     BrickletLinearPoti_calls],
  [name |-> "BrickletLoadCell", init |-> BrickletLoadCell_init, calls |-> 
     BrickletLoadCell_calls],
  [name |-> "BrickletMoisture", init |-> BrickletMoisture_init, calls |-> 
     BrickletMoisture_calls],
  [name |-> "BrickletMotionDetector", init |-> BrickletMotionDetector_init, calls |-> 
     BrickletMotionDetector_calls],
  [name |-> "BrickletMultiTouch", init |-> BrickletMultiTouch_init, calls |-> 
     BrickletMultiTouch_calls],
  [name |-> "BrickletNFCRFID", init |-> BrickletNFCRFID_init, calls |-> 
     BrickletNFCRFID_calls],
  [name |-> "BrickletPiezoBuzzer", init |-> BrickletPiezoBuzzer_init, calls |-> 
     BrickletPiezoBuzzer_calls],
  [name |-> "BrickletPiezoSpeaker", init |-> BrickletPiezoSpeaker_init, calls |-> 
     BrickletPiezoSpeaker_calls],
  [name |-> "BrickletPTC", init |-> BrickletPTC_init, calls |-> BrickletPTC_calls],
  [name |-> "BrickletRemoteSwitch", init |-> BrickletRemoteSwitch_init, calls |-> 
     BrickletRemoteSwitch_calls],
  [name |-> "BrickletRotaryEncoder", init |-> BrickletRotaryEncoder_init, calls |-> 
     BrickletRotaryEncoder_calls],
  [name |-> "BrickletRotaryPoti", init |-> BrickletRotaryPoti_init, calls |-> 
     BrickletRotaryPoti_calls],
  [name |-> "BrickletRS232", init |-> BrickletRS232_init, calls |-> BrickletRS232_calls],
  [name |-> "BrickletSegmentDisplay4x7", init |-> BrickletSegmentDisplay4x7_init, calls |-> 
     BrickletSegmentDisplay4x7_calls],
  [name |-> "BrickletSolidStateRelay", init |-> BrickletSolidStateRelay_init, calls |-> 
     BrickletSolidStateRelay_calls],
  [name |-> "BrickletSoundIntensity", init |-> BrickletSoundIntensity_init, calls |-> 
     BrickletSoundIntensity_calls],
  [name |-> "BrickletTemperature", init |-> BrickletTemperature_init, calls |-> 
     BrickletTemperature_calls],
  [name |-> "BrickletTemperatureIR", init |-> BrickletTemperatureIR_init, calls |-> 
     BrickletTemperatureIR_calls],
  [name |-> "BrickletTilt", init |-> BrickletTilt_init, calls |-> BrickletTilt_calls],
  [name |-> "BrickletVoltage", init |-> BrickletVoltage_init, calls |-> 
     BrickletVoltage_calls],
  [name |-> "BrickletVoltageCurrent", init |-> BrickletVoltageCurrent_init, calls |-> 
     BrickletVoltageCurrent_calls1 \cup BrickletVoltageCurrent_calls2] }
===========================================================================
