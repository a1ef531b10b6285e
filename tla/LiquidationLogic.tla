-------------------------- MODULE LiquidationLogic --------------------------
(***************************************************************************)
(* LiquidationLogic.sol, the amounts of a liquidation: how much of the     *)
(* debt may be repaid, what collateral and bonus that buys, and the part   *)
(* of the bonus the treasury keeps.  Pool.LiquidationCall applies them.    *)
(***************************************************************************)
EXTENDS ValidationLogic

DEFAULT_LIQUIDATION_CLOSE_FACTOR == HALF_PERCENTAGE_FACTOR
MAX_LIQUIDATION_CLOSE_FACTOR == PERCENTAGE_FACTOR

AtMost(amount, limit) == IF amount > limit THEN limit ELSE amount

(* _calculateDebt: half of the debt, all of it when the position is deep   *)
(* under water.                                                            *)
DebtToLiquidate(u, rd, debtToCover) ==
    LET closeFactor == IF HealthFactor(Position(u)) > CLOSE_FACTOR_HF_THRESHOLD
                       THEN DEFAULT_LIQUIDATION_CLOSE_FACTOR
                       ELSE MAX_LIQUIDATION_CLOSE_FACTOR
    IN  AtMost(debtToCover, percentMul(DebtOf(u, rd), closeFactor))

(* _getConfigurationData.  The debt takes the category's price whatever    *)
(* category the asset is in.                                               *)
LiquidationBonus(eMode, rc) ==
    IF IsInEModeCategory(eMode, rc) THEN eModeCategories[eMode].liquidationBonus
                                    ELSE config[rc].liquidationBonus
DebtPrice(eMode, rd) ==
    IF HasPriceSource(eMode) THEN price[eModeCategories[eMode].priceSource]
                             ELSE price[rd]

(* _calculateAvailableCollateralToLiquidate.  With too little collateral,  *)
(* all of it is taken and the debt repaid is what it is worth without the  *)
(* bonus.                                                                  *)
SeizedAndRepaid(rc, rd, eMode, debtToCover, balance) ==
    LET bonus      == LiquidationBonus(eMode, rc)
        collateralValue == AssetPrice(eMode, rc) * config[rd].unit
        debtValue  == DebtPrice(eMode, rd) * config[rc].unit
        wanted == percentMul((debtValue * debtToCover) \div collateralValue, bonus)
    IN  IF wanted > balance
        THEN [collateral |-> balance,
              debt |-> percentDiv((collateralValue * balance) \div debtValue, bonus)]
        ELSE [collateral |-> wanted, debt |-> debtToCover]

LiquidationProtocolFee(rc, eMode, collateral) ==
    IF config[rc].liquidationProtocolFee = 0 THEN 0
    ELSE percentMul(collateral - percentDiv(collateral, LiquidationBonus(eMode, rc)),
                    config[rc].liquidationProtocolFee)

=============================================================================
