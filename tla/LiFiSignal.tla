------------------------------- MODULE LiFiSignal -------------------------------
(***************************************************************************)
(* The signal of a transmitting device (LiFiTxNetDevice) and the optical   *)
(* power that is made of it: both can be set by a script, and BoostSignal  *)
(* computes the second from the first, with a bias, cut off at m_TMAX.     *)
(***************************************************************************)
EXTENDS Integers, Sequences, SequencesExt, FiniteSetsExt

CONSTANTS
    Sample,       \* samples of a signal
    Bias,
    TMAX,
    MaxSamples    \* bound on the length of a signal

ASSUME SignalAssumption == Sample \cup Bias \subseteq Int /\ TMAX \in Int /\ MaxSamples \in Nat

VARIABLES
    m_signal, m_TXOpticalPower, m_bias,
    boosted     \* history: the power was last computed, and from this signal and bias

signalVars == <<m_signal, m_TXOpticalPower, m_bias, boosted>>

SignalInit ==
    /\ m_signal = <<>> /\ m_TXOpticalPower = <<>> /\ m_bias = 0
    /\ boosted = FALSE

-----------------------------------------------------------------------------
(* The vector is stored as it is, or longer by one sample.                 *)
SetSignal(signal) ==
    /\ m_signal' = signal /\ boosted' = FALSE
    /\ UNCHANGED <<m_TXOpticalPower, m_bias>>

AddSignal(x) == Len(m_signal) < MaxSamples /\ SetSignal(Append(m_signal, x))

SetBias(x) ==
    /\ m_bias' = x /\ boosted' = FALSE
    /\ UNCHANGED <<m_signal, m_TXOpticalPower>>

SetTXOpticalPowerSignal(power) ==
    /\ m_TXOpticalPower' = power /\ boosted' = FALSE
    /\ UNCHANGED <<m_signal, m_bias>>

AddTXOpticalPowerSignal(x) ==
    Len(m_TXOpticalPower) < MaxSamples /\ SetTXOpticalPowerSignal(Append(m_TXOpticalPower, x))

(* Operators with `Mutant' in their name are faulty variants of the one    *)
(* that follows them, used to see that the properties notice.              *)
BoostSignalMutantNoClear ==
    /\ m_TXOpticalPower' =
          m_TXOpticalPower \o
          [i \in DOMAIN m_signal |-> IF m_signal[i] + m_bias > TMAX THEN TMAX
                                                                    ELSE m_signal[i] + m_bias]
    /\ boosted' = TRUE
    /\ UNCHANGED <<m_signal, m_bias>>

BoostSignal ==
    /\ m_TXOpticalPower' =
          [i \in DOMAIN m_signal |-> IF m_signal[i] + m_bias > TMAX THEN TMAX
                                                                    ELSE m_signal[i] + m_bias]
    /\ boosted' = TRUE
    /\ UNCHANGED <<m_signal, m_bias>>

(* GetAverageSignal and GetAveragePowerSignalPower, twice what they return:*)
(* they halve the sum of the extremes, and an empty vector has none.       *)
Average2(samples) == Max(Range(samples)) + Min(Range(samples))

SignalNext ==
    \/ \E x \in Sample : AddSignal(x)
    \/ \E signal \in BoundedSeq(Sample, MaxSamples) : SetSignal(signal)
    \/ \E x \in Bias : SetBias(x)
    \/ \E power \in BoundedSeq(Sample, MaxSamples) : SetTXOpticalPowerSignal(power)
    \/ \E x \in Sample : AddTXOpticalPowerSignal(x)
    \/ BoostSignal

SignalSpec == SignalInit /\ [][SignalNext]_signalVars

-----------------------------------------------------------------------------
(* Properties.                                                             *)

(* What BoostSignal leaves is the whole signal, in its order, below TMAX,  *)
(* and nothing from before the boost; its average is at most that of the   *)
(* signal with the bias, and equal if nothing was cut off.                 *)
SignalLimited ==
    boosted /\ m_signal # <<>> =>
        /\ DOMAIN m_TXOpticalPower = DOMAIN m_signal
        /\ \A i \in DOMAIN m_signal : m_TXOpticalPower[i] <= TMAX
        /\ \A i, j \in DOMAIN m_signal :
              m_signal[i] <= m_signal[j] => m_TXOpticalPower[i] <= m_TXOpticalPower[j]
        /\ Average2(m_TXOpticalPower) <= Average2(m_signal) + 2 * m_bias
        /\ Max(Range(m_signal)) + m_bias <= TMAX =>
              Average2(m_TXOpticalPower) = Average2(m_signal) + 2 * m_bias
=============================================================================
